---- MODULE Spec2Model ----
(***************************************************************************)
(* Model of the archive reader of GPXmap: src/src/ZipFile.ts (first        *)
(* version in the file, lines 1-569) and src/src/ZipCrypto.ts.             *)
(*                                                                         *)
(* Bytes are integers 0..255, a Uint8Array is a sequence of bytes that is  *)
(* indexed from 0 through At.  JavaScript's undefined, null and NaN are    *)
(* the negative sentinels Undef, Null and NaN.  32-bit results of the      *)
(* bitwise operators are kept as signed 32-bit integers, as in the code.   *)
(***************************************************************************)
EXTENDS Integers, Sequences, FiniteSets, TLC

\* ------------------------------------------------------------------ values

Undef == 0 - 1
Null == 0 - 2
NaN == 0 - 3

\* ToInt32 of the bitwise operators: undefined, null and NaN become 0
ToInt(x) == IF x < 0 THEN 0 ELSE x

\* data[i] of a Uint8Array: undefined outside 0..length-1
At(d, i) == IF i >= 0 /\ i < Len(d) THEN d[i + 1] ELSE Undef

Max(a, b) == IF a > b THEN a ELSE b

\* TypedArray.prototype.subarray(begin, end): negative indices count from
\* the end, both are clamped to 0..length, an empty view when end <= begin
RelIndex(k, len) == IF k < 0 THEN Max(len + k, 0) ELSE IF k < len THEN k ELSE len

SubBegin(d, b) == RelIndex(b, Len(d))

SubEnd(d, b, e) == Max(RelIndex(e, Len(d)), SubBegin(d, b))

subarray(d, b, e) == SubSeq(d, SubBegin(d, b) + 1, SubEnd(d, b, e))

\* ------------------------------------------------------------------ ZipConstants

eocdSignature == 101010256    \* 0x06054B50
cdfhSignature == 33639248     \* 0x02014B50
lfhSignature == 67324752      \* 0x04034B50
eocdLen == 22
cdfhLen == 46
lfhLen == 30
maxEocdCommentLen == 65535

\* ------------------------------------------------------------------ integers read from the buffer

\* ((data[i + 1]) << 8) | data[i]
getUint16(d, i) == ToInt(At(d, i + 1)) * 256 + ToInt(At(d, i))

\* (data[i+3] << 24) | (data[i+2] << 16) | (data[i+1] << 8) | data[i]: a signed
\* 32-bit integer, negative when bit 7 of data[i+3] is set
getUint32(d, i) ==
    LET b3 == ToInt(At(d, i + 3))
        hi == IF b3 >= 128 THEN b3 - 256 ELSE b3
    IN  hi * 16777216 + ToInt(At(d, i + 2)) * 65536 + ToInt(At(d, i + 1)) * 256 + ToInt(At(d, i))

\* ------------------------------------------------------------------ text decoding

\* new TextDecoder("utf-8", { fatal: false }).decode: the UTF-16 code units of the
\* decoded text.  An ill-formed sequence gives one U+FFFD per maximal subpart and the
\* offending byte is decoded again; a leading byte order mark is dropped.
Utf8Lower(lead) == IF lead = 224 THEN 160 ELSE IF lead = 240 THEN 144 ELSE 128

Utf8Upper(lead) == IF lead = 237 THEN 159 ELSE IF lead = 244 THEN 143 ELSE 191

Utf8Needed(lead) ==
    IF lead >= 194 /\ lead <= 223 THEN 1
    ELSE IF lead >= 224 /\ lead <= 239 THEN 2
    ELSE IF lead >= 240 /\ lead <= 244 THEN 3
    ELSE 0

Utf8LeadBits(lead) ==
    IF lead <= 223 THEN lead - 192 ELSE IF lead <= 239 THEN lead - 224 ELSE lead - 240

CodeUnits(cp) ==
    IF cp < 65536 THEN <<cp>>
    ELSE <<55296 + ((cp - 65536) \div 1024), 56320 + ((cp - 65536) % 1024)>>

RECURSIVE Utf8Cont(_, _, _, _, _)
RECURSIVE Utf8Units(_, _)
\* bytes d from index i on; inside a sequence: cp so far, continuation bytes still needed
Utf8Cont(d, i, cp, needed, lead) ==
    IF needed = 0 THEN CodeUnits(cp) \o Utf8Units(d, i)
    ELSE IF i >= Len(d) THEN <<65533>>
    ELSE LET b == At(d, i)
             lo == IF cp = Utf8LeadBits(lead) /\ needed = Utf8Needed(lead) THEN Utf8Lower(lead) ELSE 128
             hi == IF cp = Utf8LeadBits(lead) /\ needed = Utf8Needed(lead) THEN Utf8Upper(lead) ELSE 191
         IN  IF b < lo \/ b > hi THEN <<65533>> \o Utf8Units(d, i)
             ELSE Utf8Cont(d, i + 1, cp * 64 + (b - 128), needed - 1, lead)

Utf8Units(d, i) ==
    IF i >= Len(d) THEN <<>>
    ELSE LET b == At(d, i)
         IN  IF b < 128 THEN <<b>> \o Utf8Units(d, i + 1)
             ELSE IF Utf8Needed(b) = 0 THEN <<65533>> \o Utf8Units(d, i + 1)
             ELSE Utf8Cont(d, i + 1, Utf8LeadBits(b), Utf8Needed(b), b)

TextDecoderDecode(d) ==
    LET u == Utf8Units(d, 0)
    IN  IF Len(u) > 0 /\ u[1] = 65279 THEN Tail(u) ELSE u

\* textDecoderDecodePolyfill: String.fromCharCode of every byte
textDecoderDecodePolyfill(d) == d

\* ZipFile.convertUint8ArrayToUtf8 with the decoder the static initialiser chose
convertUint8ArrayToUtf8(dec, d) ==
    IF dec = "TextDecoder" THEN TextDecoderDecode(d) ELSE textDecoderDecodePolyfill(d)

\* this.readAsUTF8(offset, len)
readAsUTF8(dec, d, offset, len) == convertUint8ArrayToUtf8(dec, subarray(d, offset, offset + len))

\* ------------------------------------------------------------------ central directory

\* readEocd(eocdPos)
readEocd(d, eocdPos) ==
    [signature |-> getUint32(d, eocdPos),
     entries |-> getUint16(d, eocdPos + 10),
     cdfhOffset |-> getUint32(d, eocdPos + 16),
     cdSize |-> getUint32(d, eocdPos + 20)]

\* readCdfh(pos): the fields read from the buffer; the others are set by readZipDirectory
readCdfh(d, pos) ==
    [signature |-> getUint32(d, pos),
     version |-> getUint16(d, pos + 6),
     flag |-> getUint16(d, pos + 8),
     compressionMethod |-> getUint16(d, pos + 10),
     modificationTime |-> getUint16(d, pos + 12),
     crc |-> getUint32(d, pos + 16),
     compressedSize |-> getUint32(d, pos + 20),
     size |-> getUint32(d, pos + 24),
     fileNameLength |-> getUint16(d, pos + 28),
     extraFieldLength |-> getUint16(d, pos + 30),
     fileCommentLength |-> getUint16(d, pos + 32),
     localOffset |-> getUint32(d, pos + 42),
     name |-> <<>>,
     isDirectory |-> FALSE,
     extra |-> <<>>,
     comment |-> <<>>,
     timestamp |-> <<>>,
     dataStart |-> 0]

\* (x >> s) & m for a non-negative x
ShiftMask(x, s, m) == (x \div (2 ^ s)) % (m + 1)

\* the arguments of new Date(...) at line 233, taken from the 16-bit modificationTime
DosTimestamp(dostime) ==
    <<ShiftMask(dostime, 25, 127) + 1980, ShiftMask(dostime, 21, 15) - 1, ShiftMask(dostime, 16, 31),
      ShiftMask(dostime, 11, 31), ShiftMask(dostime, 5, 63), (dostime % 32) * 2>>

HasBit(x, bit) == (x \div bit) % 2 = 1

\* the positions the backward loop of lines 180-193 reads: i starts at
\* length - eocdLen + 1 and is decremented before each read while i >= n
ScanStart(len) == len - eocdLen + 1

ScanN(len) == Max(0, ScanStart(len) - maxEocdCommentLen)

ScanPositions(len) == (ScanN(len) - 1) .. (ScanStart(len) - 1)

SetMax(S) == CHOOSE x \in S : \A y \in S : y <= x

SetMin(S) == CHOOSE x \in S : \A y \in S : x <= y

\* positions of the scan that carry the EOCD magic
EocdCandidates(d) == {p \in ScanPositions(Len(d)) : getUint32(d, p) = eocdSignature}

\* candidates whose central directory offset carries the CDFH magic (the break at line 190)
EocdAccepted(d) == {p \in EocdCandidates(d) : getUint32(d, readEocd(d, p).cdfhOffset) = cdfhSignature}

\* a scan that stops at the first position from the end that carries the EOCD magic,
\* without the test of the directory offset
FindEocdUnchecked(d) ==
    IF EocdCandidates(d) # {} THEN [found |-> TRUE, pos |-> SetMax(EocdCandidates(d))]
    ELSE [found |-> FALSE, pos |-> Max(ScanN(Len(d)) - 1, 0)]

\* the value of eocd after the loop: the record at the first accepted candidate from
\* the end; without one, the record of the last candidate the loop read (eocd is
\* assigned at line 188 before the offset is checked); Null when none was read
FindEocd(d) ==
    IF EocdAccepted(d) # {} THEN [found |-> TRUE, pos |-> SetMax(EocdAccepted(d))]
    ELSE IF EocdCandidates(d) # {} THEN [found |-> TRUE, pos |-> SetMin(EocdCandidates(d))]
    ELSE [found |-> FALSE, pos |-> Max(ScanN(Len(d)) - 1, 0)]

\* "__proto__": entryTable is an object literal, and a store under this name goes to the
\* accessor of Object.prototype, which replaces the prototype of entryTable
nameProto == <<95, 95, 112, 114, 111, 116, 111, 95, 95>>

\* entryTable[cdfh.name] = cdfh (line 244): a store under "__proto__" adds no property
SetEntry(table, name, cdfh) ==
    IF name = nameProto THEN table
    ELSE [k \in DOMAIN table \cup {name} |-> IF k = name THEN cdfh ELSE table[k]]

NameLength(cdfh) == Len(cdfh.name)

\* one pass of the for loop of lines 201-245 from header i at offset
RECURSIVE WalkCdfh(_, _, _, _, _, _)
\* lines 212-220 and 230-244: h is the header read, name its decoded file name, o1 the offset behind h
WalkEntry(dec, d, i, entries, o1, table, h, name) ==
    LET o2 == o1 + h.fileNameLength
        o3 == o2 + h.extraFieldLength
        o4 == o3 + h.fileCommentLength
        h2 == [h EXCEPT !.name = name,
                        !.isDirectory = (Len(name) > 0 /\ name[Len(name)] = 47),
                        !.extra = subarray(d, o2, o3),
                        !.comment = readAsUTF8(dec, d, o3, h.fileCommentLength),
                        !.timestamp = DosTimestamp(h.modificationTime)]
        lfhExtrafieldLength == getUint16(d, h.localOffset + 28)
    IN  WalkCdfh(dec, d, i + 1, entries, o4,
                 SetEntry(table, name,
                          [h2 EXCEPT !.dataStart = h.localOffset + lfhLen + NameLength(h2) + lfhExtrafieldLength]))

\* the header checks with the strong-encryption test on bit 5 instead of bit 6
WalkHeaderBit5(dec, d, i, entries, offset, table, h) ==
    IF h.signature # cdfhSignature THEN [kind |-> "error", msg |-> "Zip: Bad CDFH signature"]
    ELSE IF h.fileNameLength = 0 THEN [kind |-> "error", msg |-> "Zip Entry name missing"]
    ELSE IF HasBit(h.flag, 32) THEN [kind |-> "error", msg |-> "Zip: Strong encryption not suppoered."]
    ELSE IF HasBit(h.flag, 8192) THEN [kind |-> "error", msg |-> "Zip: Strong directory encryption not suppoered."]
    ELSE WalkEntry(dec, d, i, entries, offset + cdfhLen, table, h,
                   readAsUTF8(dec, d, offset + cdfhLen, h.fileNameLength))

\* lines 202-210 and the flag checks of lines 222-228: h is the header read at offset
WalkHeader(dec, d, i, entries, offset, table, h) ==
    IF h.signature # cdfhSignature THEN [kind |-> "error", msg |-> "Zip: Bad CDFH signature"]
    ELSE IF h.fileNameLength = 0 THEN [kind |-> "error", msg |-> "Zip Entry name missing"]
    ELSE IF HasBit(h.flag, 64) THEN [kind |-> "error", msg |-> "Zip: Strong encryption not suppoered."]
    ELSE IF HasBit(h.flag, 8192) THEN [kind |-> "error", msg |-> "Zip: Strong directory encryption not suppoered."]
    ELSE WalkEntry(dec, d, i, entries, offset + cdfhLen, table, h,
                   readAsUTF8(dec, d, offset + cdfhLen, h.fileNameLength))

WalkCdfh(dec, d, i, entries, offset, table) ==
    IF i >= entries THEN [kind |-> "ok", table |-> table]
    ELSE WalkHeader(dec, d, i, entries, offset, table, readCdfh(d, offset))

EmptyTable == [k \in {} |-> 0]

\* readZipDirectory()
readZipDirectory(dec, d) ==
    LET f == FindEocd(d)
        eocd == readEocd(d, f.pos)
    IN  IF ~f.found THEN [kind |-> "error", msg |-> "Zip: File ended abruptly: EOCD not found"]
        ELSE WalkCdfh(dec, d, 0, eocd.entries, eocd.cdfhOffset, EmptyTable)

\* ------------------------------------------------------------------ ZipCrypto

\* An unsigned 32-bit word (the value of x >>> 0) is the sequence of its four bytes,
\* least significant first, so that no product or sum leaves the 32 bits.
RECURSIVE XorBits(_, _, _)
XorBits(a, b, n) == IF n = 0 THEN 0 ELSE ((a + b) % 2) + 2 * XorBits(a \div 2, b \div 2, n - 1)

Xor8(a, b) == XorBits(a, b, 8)

WXor(x, y) == <<Xor8(x[1], y[1]), Xor8(x[2], y[2]), Xor8(x[3], y[3]), Xor8(x[4], y[4])>>

\* x >>> 1 and x >>> 8
WShr1(x) ==
    <<(x[1] \div 2) + (x[2] % 2) * 128, (x[2] \div 2) + (x[3] % 2) * 128,
      (x[3] \div 2) + (x[4] % 2) * 128, x[4] \div 2>>

WShr8(x) == <<x[2], x[3], x[4], 0>>

\* (x + y) >>> 0
WAdd(x, y) ==
    LET t1 == x[1] + y[1]
        t2 == x[2] + y[2] + (t1 \div 256)
        t3 == x[3] + y[3] + (t2 \div 256)
        t4 == x[4] + y[4] + (t3 \div 256)
    IN  <<t1 % 256, t2 % 256, t3 % 256, t4 % 256>>

\* Math.imul(x, y) >>> 0
WMul(x, y) ==
    LET t1 == x[1] * y[1]
        t2 == x[1] * y[2] + x[2] * y[1] + (t1 \div 256)
        t3 == x[1] * y[3] + x[2] * y[2] + x[3] * y[1] + (t2 \div 256)
        t4 == x[1] * y[4] + x[2] * y[3] + x[3] * y[2] + x[4] * y[1] + (t3 \div 256)
    IN  <<t1 % 256, t2 % 256, t3 % 256, t4 % 256>>

WByte(b) == <<b, 0, 0, 0>>

crcPolynomial == <<32, 131, 184, 237>>    \* 0xedb88320

keyMultiplier == <<5, 132, 8, 8>>         \* 134775813

\* the inner loop of createCrcTable, j steps left
RECURSIVE CrcSteps(_, _)
CrcSteps(c, j) ==
    IF j = 0 THEN c
    ELSE CrcSteps(IF c[1] % 2 = 1 THEN WXor(crcPolynomial, WShr1(c)) ELSE WShr1(c), j - 1)

\* createCrcTable()
createCrcTable == [i \in 0 .. 255 |-> CrcSteps(WByte(i), 8)]

\* the static ZipCrypto.crcTable before the first use (undefined, line 28) and after
\* an assignment of the table tbl
NoTable == [built |-> FALSE, table |-> <<>>]

Table(tbl) == [built |-> TRUE, table |-> tbl]

\* line 31: the table crc32 uses when the static ZipCrypto.crcTable holds held; the
\* static holds it afterwards
TableInUse(held) == IF held.built THEN held.table ELSE createCrcTable

\* crc32(crc, c) with the table t in use: ((crc >>> 8) ^ crcTable[(crc ^ c) & 0xff]) >>> 0
crc32(t, crc, c) == WXor(WShr8(crc), t[Xor8(crc[1], ToInt(c) % 256)])

\* updateKeys with key 2 updated from the low byte of key 1
updateKeysLowByte(t, keys, c) ==
    LET k0 == crc32(t, keys[1], c)
        k1 == WAdd(WMul(WAdd(keys[2], WByte(k0[1])), keyMultiplier), WByte(1))
        k2 == crc32(t, keys[3], k1[1])
    IN  <<k0, k1, k2>>

\* updateKeys(keys, c)
updateKeys(t, keys, c) ==
    LET k0 == crc32(t, keys[1], c)
        k1 == WAdd(WMul(WAdd(keys[2], WByte(k0[1])), keyMultiplier), WByte(1))
        k2 == crc32(t, keys[3], k1[4])
    IN  <<k0, k1, k2>>

initialKeys == <<<<120, 86, 52, 18>>, <<137, 103, 69, 35>>, <<144, 120, 86, 52>>>>

\* initKeys(password): password is the sequence of its char codes
RECURSIVE initKeysFrom(_, _, _, _)
initKeysFrom(t, keys, password, i) ==
    IF i > Len(password) THEN keys ELSE initKeysFrom(t, updateKeys(t, keys, password[i]), password, i + 1)

initKeys(t, password) == initKeysFrom(t, initialKeys, password, 1)

\* the keystream byte of decryptByte: (Math.imul(temp, temp ^ 1) >>> 8) & 0xff with
\* temp = (keys[2] | 2) >>> 0
StreamByte(keys) ==
    LET k == keys[3]
        b0 == IF (k[1] \div 2) % 2 = 1 THEN k[1] ELSE k[1] + 2
        temp == <<b0, k[2], k[3], k[4]>>
        temp1 == <<IF b0 % 2 = 1 THEN b0 - 1 ELSE b0 + 1, k[2], k[3], k[4]>>
    IN  WMul(temp, temp1)[2]

\* decryptByte(keys, c): the decrypted byte; the keys are then updated with it
decryptByte(keys, c) == Xor8(ToInt(c), StreamByte(keys))

\* the loops of decrypt: bytes data[first .. last] decrypted in order, <<keys, bytes>>;
\* acc holds the bytes decrypted so far, the loop's i is first + Len(acc)
RECURSIVE DecryptRangeCipherFeedback(_, _, _, _, _, _)
\* the same loops with the keys updated with the byte read instead of the decrypted one
DecryptRangeCipherFeedback(t, keys, d, first, last, acc) ==
    IF first + Len(acc) > last THEN <<keys, acc>>
    ELSE DecryptRangeCipherFeedback(t, updateKeys(t, keys, At(d, first + Len(acc))), d, first, last,
                                    Append(acc, decryptByte(keys, At(d, first + Len(acc)))))

RECURSIVE DecryptRange(_, _, _, _, _, _)
DecryptRange(t, keys, d, first, last, acc) ==
    IF first + Len(acc) > last THEN <<keys, acc>>
    ELSE LET c == decryptByte(keys, At(d, first + Len(acc)))
         IN  DecryptRange(t, updateKeys(t, keys, c), d, first, last, Append(acc, c))

\* isEncrypted(cdfh): cdfh.flag & 1 (a missing flag gives 0)
isEncrypted(cdfh) == ToInt(cdfh.flag) % 2

\* the check byte taken from the crc whatever the flag
CheckByteCrc(cdfh) == (cdfh.crc \div 16777216) % 256

\* the check byte of decrypt, from a signed 32-bit crc or the 16-bit time
CheckByte(cdfh) ==
    IF HasBit(cdfh.flag, 8) THEN (cdfh.modificationTime \div 256) % 256
    ELSE (cdfh.crc \div 16777216) % 256

\* lines 69-91 of decrypt with keys the local array of line 68 and t the crc table
decryptWith(t, keys, d, cdfh) ==
    LET hdr == DecryptRange(t, keys, d, 0, 11, <<>>)
    IN  IF hdr[2][12] # CheckByte(cdfh) THEN [kind |-> "error", msg |-> "ZipCrypto: The password did not match."]
        ELSE IF Len(d) - 12 < 0 THEN [kind |-> "error", msg |-> "RangeError: Invalid typed array length"]
        ELSE [kind |-> "ok", msg |-> "", bytes |-> DecryptRange(t, hdr[1], d, 12, Len(d) - 1, <<>>)[2]]

\* decrypt(data, cdfh, password)
decrypt(t, d, cdfh, password) == decryptWith(t, initKeys(t, password), d, cdfh)

\* ------------------------------------------------------------------ inflate

\* the number of loop passes (blocks and symbols) of one inflate call the model follows;
\* a call that needs more is left in its loops (ret.kind = "running")
MaxSteps == 16

startLens == <<3, 4, 5, 6, 7, 8, 9, 10, 11, 13, 15, 17, 19, 23, 27, 31, 35, 43, 51, 59, 67, 83, 99, 115, 131, 163, 195, 227, 258>>

lExt == <<0, 0, 0, 0, 0, 0, 0, 0, 1, 1, 1, 1, 2, 2, 2, 2, 3, 3, 3, 3, 4, 4, 4, 4, 5, 5, 5, 5, 0>>

dists == <<1, 2, 3, 4, 5, 7, 9, 13, 17, 25, 33, 49, 65, 97, 129, 193, 257, 385, 513, 769, 1025, 1537, 2049, 3073, 4097, 6145, 8193, 12289, 16385, 24577>>

dExt == <<0, 0, 0, 0, 1, 1, 2, 2, 3, 3, 4, 4, 5, 5, 6, 6, 7, 7, 8, 8, 9, 9, 10, 10, 11, 11, 12, 12, 13, 13>>

dynamicTableOrder == <<16, 17, 18, 0, 8, 7, 9, 6, 10, 5, 11, 4, 12, 3, 13, 2, 14, 1, 15>>

\* the second loop of fnInflateConstruct: left after lengths i..15, or the first negative value
RECURSIVE ConstructLeft(_, _, _)
ConstructLeft(count, i, left) ==
    IF i > 15 THEN left
    ELSE LET l == left * 2 - count[i]
         IN  IF l < 0 THEN l ELSE ConstructLeft(count, i + 1, l)

\* the symbols with a non-zero length, by length and then by index (offs and the last loop)
RECURSIVE ConstructSymbols(_, _, _)
ConstructSymbols(lens2, n, len) ==
    IF len > 15 THEN <<>>
    ELSE SelectSeq([k \in 1 .. n |-> k - 1], LAMBDA i : At(lens2, i) = len) \o ConstructSymbols(lens2, n, len + 1)

\* fnInflateConstruct(codes, lens2, n): the table it leaves in codes and its return value
fnInflateConstruct(lens2, n) ==
    LET count == [j \in 0 .. 15 |-> Cardinality({i \in 0 .. n - 1 : At(lens2, i) = j})]
        left == ConstructLeft(count, 1, 1)
    IN  IF count[0] = n THEN [count |-> count, symbol |-> <<>>, left |-> 0]
        ELSE IF left < 0 THEN [count |-> count, symbol |-> <<>>, left |-> left]
        ELSE [count |-> count, symbol |-> ConstructSymbols(lens2, n, 1), left |-> left]

\* fnConstructFixedHuffman: the two tables of a fixed block
fixedLens == [k \in 1 .. 288 |-> IF k - 1 < 144 THEN 8 ELSE IF k - 1 < 256 THEN 9 ELSE IF k - 1 < 280 THEN 7 ELSE 8]

fixedLenCode == fnInflateConstruct(fixedLens, 288)

fixedDistCode == fnInflateConstruct([k \in 1 .. 30 |-> 5], 30)

\* the decoder's variables; v is the value the last helper returned, err the message
\* of a thrown error, phantom counts the input bytes fnBits took at or beyond data.length
\* and steps the loop passes; far is the distance of a pair that exceeded outCnt, stray
\* counts the copies made with a distance outside 1 .. outCnt, copyAt, copyLen and
\* copyDist are outCnt, len and dist of the last copy made, noSymbol is outCnt + 1 at the
\* first fnDecode that returned null (all are history, not program state)
InflateStart(offset, finalSize) ==
    [inCnt |-> offset, outCnt |-> 0, bitCnt |-> 0, bitBuf |-> 0, acc |-> 0,
     out |-> [k \in 1 .. finalSize |-> 0], v |-> 0, err |-> "", phantom |-> 0, steps |-> 0,
     far |-> 0, stray |-> 0, copyAt |-> 0, copyLen |-> 0, copyDist |-> 0, noSymbol |-> 0]

Unfinished == "(still decoding)"

Throw(s, msg) == [s EXCEPT !.err = msg]

Phantom(d, i) == IF At(d, i) = Undef THEN 1 ELSE 0

\* the while loop of fnBits; acc is its local variable out
RECURSIVE BitsFill(_, _, _, _)
BitsFill(s, d, bufEnd, need) ==
    IF s.bitCnt # NaN /\ need # Undef /\ s.bitCnt < need
    THEN IF s.inCnt = bufEnd THEN Throw(s, "Zip: inflate: Data overflow")
         ELSE BitsFill([s EXCEPT !.acc = @ + ToInt(At(d, s.inCnt)) * (2 ^ s.bitCnt),
                                 !.inCnt = @ + 1,
                                 !.bitCnt = @ + 8,
                                 !.phantom = @ + Phantom(d, s.inCnt)], d, bufEnd, need)
    ELSE s

\* fnBits(need); need is undefined when it comes from lExt or dExt at a null symbol
fnBits(s, d, bufEnd, need) ==
    IF s.err # "" THEN s
    ELSE LET f == BitsFill([s EXCEPT !.acc = s.bitBuf], d, bufEnd, need)
         IN  IF f.err # "" THEN f
             ELSE [f EXCEPT !.bitBuf = f.acc \div (2 ^ ToInt(need)),
                            !.bitCnt = IF f.bitCnt = NaN \/ need = Undef THEN NaN ELSE f.bitCnt - need,
                            !.v = f.acc % (2 ^ ToInt(need))]

\* the for loop of fnDecode from bit length j; b is the decoder after fnBits(1)
RECURSIVE DecodeFrom(_, _, _, _, _, _, _, _)
\* the step of fnDecode with the symbol taken at i + code, first not subtracted
DecodeBitFromCode(b, d, bufEnd, codes, j, code, first, i) ==
    LET c == code + b.v
        count == codes.count[j]
    IN  IF b.err # "" THEN b
        ELSE IF c < first + count THEN [b EXCEPT !.v = At(codes.symbol, i + c)]
        ELSE DecodeFrom(b, d, bufEnd, codes, j + 1, c * 2, (first + count) * 2, i + count)

DecodeBit(b, d, bufEnd, codes, j, code, first, i) ==
    LET c == code + b.v
        count == codes.count[j]
    IN  IF b.err # "" THEN b
        ELSE IF c < first + count THEN [b EXCEPT !.v = At(codes.symbol, i + (c - first))]
        ELSE DecodeFrom(b, d, bufEnd, codes, j + 1, c * 2, (first + count) * 2, i + count)

DecodeFrom(s, d, bufEnd, codes, j, code, first, i) ==
    IF j > 15 THEN [s EXCEPT !.v = Null, !.noSymbol = IF @ = 0 THEN s.outCnt + 1 ELSE @]
    ELSE DecodeBit(fnBits(s, d, bufEnd, 1), d, bufEnd, codes, j, code, first, i)

\* fnDecode(codes)
fnDecode(s, d, bufEnd, codes) ==
    IF s.err # "" THEN s ELSE DecodeFrom(s, d, bufEnd, codes, 1, 0, 0, 0)

\* outBuf[k] = v: a Uint8Array ignores a write outside 0..length-1
WriteOut(out, k, v) == IF k >= 0 /\ k < Len(out) THEN [out EXCEPT ![k + 1] = ToInt(v) % 256] ELSE out

\* fnInflateStored() without the test of line 376
fnInflateStoredUnchecked(s, d, bufEnd) ==
    LET len == getUint16(d, s.inCnt)
        i4 == s.inCnt + 4
    IN  IF s.err # "" THEN s
        ELSE IF s.inCnt + 4 > bufEnd THEN Throw([s EXCEPT !.bitBuf = 0, !.bitCnt = 0], "Zip: inflate: Data overflow")
        ELSE IF i4 + len > bufEnd THEN Throw([s EXCEPT !.bitBuf = 0, !.bitCnt = 0, !.inCnt = i4], "Zip: inflate: Data overflow")
        ELSE [s EXCEPT !.bitBuf = 0, !.bitCnt = 0,
                       !.inCnt = i4 + len,
                       !.outCnt = @ + len,
                       !.out = [k \in 1 .. Len(s.out) |->
                                   IF k - 1 >= s.outCnt /\ k - 1 < s.outCnt + len
                                   THEN ToInt(At(d, i4 + (k - 1 - s.outCnt))) ELSE s.out[k]]]

\* fnInflateStored()
fnInflateStored(s, d, bufEnd) ==
    LET len == getUint16(d, s.inCnt)
        i2 == s.inCnt + 2
        i4 == s.inCnt + 4
    IN  IF s.err # "" THEN s
        ELSE IF s.inCnt + 4 > bufEnd THEN Throw([s EXCEPT !.bitBuf = 0, !.bitCnt = 0], "Zip: inflate: Data overflow")
        ELSE IF At(d, i2) # 255 - (len % 256) \/ At(d, i2 + 1) # 255 - (len \div 256)
             THEN Throw([s EXCEPT !.bitBuf = 0, !.bitCnt = 0, !.inCnt = i2], "Zip: inflate: Bad length")
        ELSE IF i4 + len > bufEnd THEN Throw([s EXCEPT !.bitBuf = 0, !.bitCnt = 0, !.inCnt = i4], "Zip: inflate: Data overflow")
        ELSE [s EXCEPT !.bitBuf = 0, !.bitCnt = 0,
                       !.inCnt = i4 + len,
                       !.outCnt = @ + len,
                       !.out = [k \in 1 .. Len(s.out) |->
                                   IF k - 1 >= s.outCnt /\ k - 1 < s.outCnt + len
                                   THEN ToInt(At(d, i4 + (k - 1 - s.outCnt))) ELSE s.out[k]]]

\* the loop of lines 403-408: the lengths of the code length code, by symbol
RECURSIVE ReadCodeLengths(_, _, _, _, _, _)
ReadCodeLengths(s, d, bufEnd, i, nCode, lens) ==
    IF s.err # "" \/ i >= nCode THEN [s |-> s, lens |-> lens]
    ELSE LET b == fnBits(s, d, bufEnd, 3)
         IN  ReadCodeLengths(b, d, bufEnd, i + 1, nCode,
                             IF b.err # "" THEN lens ELSE [lens EXCEPT ![dynamicTableOrder[i + 1] + 1] = b.v])

Repeat(v, n) == [k \in 1 .. n |-> v]

\* the loop of lines 413-443: lens[0 .. nLen + nDist - 1]
RECURSIVE ReadLengths(_, _, _, _, _, _)
\* the repeat with symbol 16 giving zeros as 17 and 18 do
RepeatLengthOfZeros(b, symbol, d, bufEnd, codes, total, lens) ==
    LET rep == (IF symbol = 16 \/ symbol = 17 THEN 3 ELSE 11) + b.v
    IN  IF b.err # "" THEN [s |-> b, lens |-> lens]
        ELSE IF Len(lens) + rep > total
             THEN [s |-> Throw(b, "Zip: inflate: more lengths than specified"), lens |-> lens]
        ELSE ReadLengths(b, d, bufEnd, codes, total, lens \o Repeat(0, rep))

\* lines 428-441: b is the decoder after the repeat count was read with fnBits
RepeatLength(b, symbol, d, bufEnd, codes, total, lens) ==
    LET rep == (IF symbol = 16 \/ symbol = 17 THEN 3 ELSE 11) + b.v
        len == IF symbol = 16 THEN lens[Len(lens)] ELSE 0
    IN  IF b.err # "" THEN [s |-> b, lens |-> lens]
        ELSE IF Len(lens) + rep > total
             THEN [s |-> Throw(b, "Zip: inflate: more lengths than specified"), lens |-> lens]
        ELSE ReadLengths(b, d, bufEnd, codes, total, lens \o Repeat(len, rep))

\* lines 414-427: a is the decoder after fnDecode(lenCode), a.v the symbol
ReadLength(a, d, bufEnd, codes, total, lens) ==
    IF a.err # "" THEN [s |-> a, lens |-> lens]
    ELSE IF a.v = Null \/ (a.v >= 0 /\ a.v < 16)
         THEN ReadLengths(a, d, bufEnd, codes, total, Append(lens, a.v))
    ELSE IF a.v = 16 /\ Len(lens) = 0
         THEN [s |-> Throw(a, "Zip: inflate: repeat lengths with no first length"), lens |-> lens]
    ELSE RepeatLength(fnBits(a, d, bufEnd, IF a.v = 16 THEN 2 ELSE IF a.v = 17 THEN 3 ELSE 7),
                      a.v, d, bufEnd, codes, total, lens)

ReadLengths(s, d, bufEnd, codes, total, lens) ==
    IF s.err # "" \/ Len(lens) >= total THEN [s |-> s, lens |-> lens]
    ELSE ReadLength(fnDecode(s, d, bufEnd, codes), d, bufEnd, codes, total, lens)

\* construct returned an error for fnConstructDynamicHuffman (line 447)
BadCode(err, n, codes) == err < 0 \/ (err > 0 /\ n - codes.count[0] # 1)

\* fnConstructDynamicHuffman(): the decoder state and the two tables, in the order of
\* its statements; each step takes what the steps before it read
noCode == [count |-> <<>>, symbol |-> <<>>, left |-> 0]

DynamicThrown(s) == [s |-> s, lenCode |-> noCode, distCode |-> noCode]

\* lines 444-450
DynamicChecked(s, lenCode, distCode, nLen, nDist) ==
    IF BadCode(lenCode.left, nLen, lenCode) \/ BadCode(distCode.left, nDist, distCode)
    THEN DynamicThrown(Throw(s, "Zip: inflate: bad literal or length codes"))
    ELSE [s |-> s, lenCode |-> lenCode, distCode |-> distCode]

\* ll is what the loop of lines 413-443 left
DynamicTables(ll, nLen, nDist) ==
    IF ll.s.err # "" THEN DynamicThrown(ll.s)
    ELSE DynamicChecked(ll.s, fnInflateConstruct(ll.lens, nLen),
                        fnInflateConstruct(SubSeq(ll.lens, nLen + 1, nLen + nDist), nDist), nLen, nDist)

\* lines 409-411: clCode is the code of the code lengths
DynamicLengths(s, clCode, nLen, nDist, d, bufEnd) ==
    IF clCode.left # 0 THEN DynamicThrown(Throw(s, "Zip: inflate: length codes incomplete"))
    ELSE DynamicTables(ReadLengths(s, d, bufEnd, clCode, nLen + nDist, <<>>), nLen, nDist)

\* cl is what the loop of lines 403-408 left
DynamicCodeLengths(cl, nLen, nDist, d, bufEnd) ==
    IF cl.s.err # "" THEN DynamicThrown(cl.s)
    ELSE DynamicLengths(cl.s, fnInflateConstruct(cl.lens, 19), nLen, nDist, d, bufEnd)

\* lines 398-400: b3 is the decoder after the three counts were read
DynamicCounts(b3, nLen, nDist, d, bufEnd) ==
    IF b3.err # "" THEN DynamicThrown(b3)
    ELSE IF nLen > 286 \/ nDist > 30
         THEN DynamicThrown(Throw(b3, "Zip: inflate: length/distance code overflow"))
    ELSE DynamicCodeLengths(ReadCodeLengths(b3, d, bufEnd, 0, b3.v + 4, Repeat(0, 19)), nLen, nDist, d, bufEnd)

DynamicNCode(b2, nLen, d, bufEnd) == DynamicCounts(fnBits(b2, d, bufEnd, 4), nLen, b2.v + 1, d, bufEnd)

DynamicNDist(b1, d, bufEnd) == DynamicNCode(fnBits(b1, d, bufEnd, 5), b1.v + 257, d, bufEnd)

fnConstructDynamicHuffman(s, d, bufEnd) == DynamicNDist(fnBits(s, d, bufEnd, 5), d, bufEnd)

\* a copy of the slice outBuf[outCnt - dist .. outCnt - dist + len - 1] as it is before
\* the loop
CopyBackBulk(out, outCnt, dist, len) ==
    [k \in 1 .. Len(out) |->
        IF k - 1 >= outCnt /\ k - 1 < outCnt + len
        THEN IF dist = NaN THEN 0 ELSE ToInt(At(out, k - 1 - dist))
        ELSE out[k]]

\* the copy loop of lines 476-480: element outCnt + j gets what element outCnt + j - dist
\* holds by then, which is the element (j % dist) places after outCnt - dist as it was
\* before the loop; outBuf[outCnt - NaN] is undefined, stored as 0; writes at or beyond
\* the length are ignored
CopyBack(out, outCnt, dist, len) ==
    [k \in 1 .. Len(out) |->
        IF k - 1 >= outCnt /\ k - 1 < outCnt + len
        THEN IF dist = NaN THEN 0 ELSE ToInt(At(out, outCnt - dist + ((k - 1 - outCnt) % dist)))
        ELSE out[k]]

\* fnInflateHuffmann(): one pass of the do loop and the passes after it
RECURSIVE fnInflateHuffmann(_, _, _, _, _)
\* lines 472-480: e is the decoder after the extra bits of the distance were read,
\* base is dists[symbol] (NaN when the distance symbol is null or undefined)
HuffmannCopy(e, base, len, d, bufEnd, lenCode, distCode) ==
    LET dist == IF base = NaN THEN NaN ELSE base + e.v
    IN  IF e.err # "" THEN e
        ELSE IF dist # NaN /\ dist > e.outCnt
             THEN Throw([e EXCEPT !.far = dist], "Zip: inflate: distance out of range")
        ELSE fnInflateHuffmann([e EXCEPT !.out = CopyBack(e.out, e.outCnt, dist, len), !.outCnt = @ + len,
                                         !.stray = @ + (IF dist = NaN \/ dist < 1 THEN 1 ELSE 0),
                                         !.copyAt = e.outCnt, !.copyLen = len, !.copyDist = dist],
                               d, bufEnd, lenCode, distCode)

\* line 470: c is the decoder after fnDecode(distCode)
HuffmannDistance(c, len, d, bufEnd, lenCode, distCode) ==
    IF c.err # "" THEN c
    ELSE HuffmannCopy(fnBits(c, d, bufEnd, IF c.v < 0 THEN Undef ELSE dExt[c.v + 1]),
                      IF c.v < 0 THEN NaN ELSE dists[c.v + 1], len, d, bufEnd, lenCode, distCode)

\* lines 467-469: b is the decoder after the extra bits of the length were read
HuffmannLength(b, start, d, bufEnd, lenCode, distCode) ==
    IF b.err # "" THEN b
    ELSE HuffmannDistance(fnDecode(b, d, bufEnd, distCode), start + b.v, d, bufEnd, lenCode, distCode)

\* lines 458-466: a is the decoder after fnDecode(lenCode), a.v the symbol
HuffmannSymbol(a, d, bufEnd, lenCode, distCode) ==
    IF a.err # "" THEN a
    ELSE IF a.v = Null \/ (a.v >= 0 /\ a.v < 256)
         THEN fnInflateHuffmann([a EXCEPT !.out = WriteOut(a.out, a.outCnt, a.v), !.outCnt = @ + 1],
                                d, bufEnd, lenCode, distCode)
    ELSE IF a.v = 256 THEN a
    ELSE IF a.v < 0 THEN fnInflateHuffmann(a, d, bufEnd, lenCode, distCode)
    ELSE IF a.v - 257 > 28 THEN Throw(a, "Zip: inflate: Invalid length/distance")
    ELSE HuffmannLength(fnBits(a, d, bufEnd, lExt[a.v - 256]), startLens[a.v - 256],
                        d, bufEnd, lenCode, distCode)

fnInflateHuffmann(s, d, bufEnd, lenCode, distCode) ==
    IF s.err # "" THEN s
    ELSE IF s.steps >= MaxSteps THEN Throw(s, Unfinished)
    ELSE HuffmannSymbol(fnDecode([s EXCEPT !.steps = @ + 1], d, bufEnd, lenCode), d, bufEnd, lenCode, distCode)

\* the do loop of lines 487-518 from one block header on
RECURSIVE InflateBlocks(_, _, _)
\* line 518: body is the decoder after the block, last the block's first bit
BlockEnd(body, last, d, bufEnd) ==
    IF body.err # "" \/ last = 1 THEN body ELSE InflateBlocks(body, d, bufEnd)

\* lines 509-512
InflateDynamic(dyn, d, bufEnd) == fnInflateHuffmann(dyn.s, d, bufEnd, dyn.lenCode, dyn.distCode)

\* the switch of lines 491-517: t is the decoder after the block type was read
BlockBody(t, d, bufEnd) ==
    IF t.err # "" THEN t
    ELSE IF t.v = 0 THEN fnInflateStored(t, d, bufEnd)
    ELSE IF t.v = 1 THEN fnInflateHuffmann(t, d, bufEnd, fixedLenCode, fixedDistCode)
    ELSE IF t.v = 2 THEN InflateDynamic(fnConstructDynamicHuffman(t, d, bufEnd), d, bufEnd)
    ELSE Throw(t, "Zip: inflate: unsupported compression type")

\* lines 488-489: l is the decoder after the block's first bit was read
BlockType(l, d, bufEnd) == BlockEnd(BlockBody(fnBits(l, d, bufEnd, 2), d, bufEnd), l.v, d, bufEnd)

InflateBlocks(s, d, bufEnd) ==
    IF s.steps >= MaxSteps THEN Throw(s, Unfinished)
    ELSE BlockType(fnBits([s EXCEPT !.steps = @ + 1], d, bufEnd, 1), d, bufEnd)

\* the history of a call of inflate
NoTrace ==
    [far |-> 0, stray |-> 0, copyAt |-> 0, copyLen |-> 0, copyDist |-> 0, inCnt |-> 0, noSymbol |-> 0,
     bitNaN |-> FALSE]

Trace(s) ==
    [far |-> s.far, stray |-> s.stray, copyAt |-> s.copyAt, copyLen |-> s.copyLen, copyDist |-> s.copyDist,
     inCnt |-> s.inCnt, noSymbol |-> s.noSymbol, bitNaN |-> (s.bitCnt = NaN)]

\* line 519: s is the decoder after the block loop
InflateEnd(s) ==
    IF s.err # "" THEN [kind |-> "error", msg |-> s.err, phantom |-> s.phantom,
                        inCnt |-> s.inCnt, outCnt |-> s.outCnt, bitCnt |-> s.bitCnt, trace |-> Trace(s)]
    ELSE [kind |-> "ok", bytes |-> s.out, phantom |-> s.phantom, inCnt |-> s.inCnt, outCnt |-> s.outCnt,
          trace |-> Trace(s)]

\* inflate(data, offset, compressedSize, finalSize)
inflate(d, offset, compressedSize, finalSize) ==
    IF finalSize < 0 THEN [kind |-> "error", msg |-> "RangeError: Invalid typed array length", phantom |-> 0,
                           outCnt |-> 0, trace |-> NoTrace]
    ELSE InflateEnd(InflateBlocks(InflateStart(offset, finalSize), d, offset + compressedSize))

\* ------------------------------------------------------------------ archives supplied by the caller

\* little-endian fields; a negative n is written in two's complement
LE16(n) == <<n % 256, (n \div 256) % 256>>

LE32(n) == <<n % 256, (n \div 256) % 256, (n \div 65536) % 256, (n \div 16777216) % 256>>

\* an entry as a writer lays it out: e.data are the bytes of the data region
LocalHeader(e) ==
    LE32(lfhSignature) \o LE16(20) \o LE16(e.flag) \o LE16(e.method) \o LE16(e.time) \o LE16(e.date)
    \o LE32(e.crc) \o LE32(e.csize) \o LE32(e.size) \o LE16(Len(e.name)) \o LE16(Len(e.lextra))
    \o e.name \o e.lextra

CentralHeader(e, localOffset) ==
    LE32(cdfhSignature) \o LE16(20) \o LE16(20) \o LE16(e.flag) \o LE16(e.method) \o LE16(e.time) \o LE16(e.date)
    \o LE32(e.crc) \o LE32(e.csize) \o LE32(e.size) \o LE16(Len(e.name)) \o LE16(Len(e.cextra))
    \o LE16(Len(e.comment)) \o LE16(0) \o LE16(0) \o LE32(0) \o LE32(localOffset)
    \o e.name \o e.cextra \o e.comment

EndRecord(entries, cdSize, cdOffset, comment) ==
    LE32(eocdSignature) \o LE16(0) \o LE16(0) \o LE16(entries) \o LE16(entries)
    \o LE32(cdSize) \o LE32(cdOffset) \o LE16(Len(comment)) \o comment

RECURSIVE LocalPart(_, _)
LocalPart(es, k) ==
    IF k > Len(es) THEN <<>> ELSE LocalHeader(es[k]) \o es[k].data \o LocalPart(es, k + 1)

RECURSIVE CentralPart(_, _, _)
CentralPart(es, k, localOffset) ==
    IF k > Len(es) THEN <<>>
    ELSE CentralHeader(es[k], localOffset)
         \o CentralPart(es, k + 1, localOffset + Len(LocalHeader(es[k])) + Len(es[k].data))

\* a whole archive; cut bytes are missing at the end of the central directory
\* (the end record still names the directory's start and entries entries)
ZipCut(es, entries, cut, comment) ==
    LET loc == LocalPart(es, 1)
        cd == CentralPart(es, 1, 0)
        kept == SubSeq(cd, 1, Len(cd) - cut)
    IN  loc \o kept \o EndRecord(entries, Len(cd), Len(loc), comment)

Zip(es) == ZipCut(es, Len(es), 0, <<>>)

Entry(name, flag, method, crc, csize, size, stream) ==
    [name |-> name, flag |-> flag, method |-> method, time |-> 27300, date |-> 23073, crc |-> crc,
     csize |-> csize, size |-> size, lextra |-> <<>>, cextra |-> <<>>, comment |-> <<>>, data |-> stream]

\* traditional encryption as a writer applies it (the inverse of decrypt): the 12-byte
\* header ends in the check byte, every byte is xored with the keystream byte and
\* the keys are updated with the plain byte
RECURSIVE EncryptRange(_, _, _)
EncryptRange(keys, plain, acc) ==
    IF Len(acc) >= Len(plain) THEN acc
    ELSE EncryptRange(updateKeys(createCrcTable, keys, plain[Len(acc) + 1]), plain,
                      Append(acc, Xor8(plain[Len(acc) + 1], StreamByte(keys))))

encrypt(plain, check, password) ==
    EncryptRange(initKeys(createCrcTable, password), <<17, 34, 51, 68, 85, 102, 119, 136, 153, 170, 187, check>> \o plain, <<>>)

\* names and passwords, as char codes
nameA == <<97, 46, 116, 120, 116>>       \* "a.txt"
nameB == <<98, 46, 116, 120, 116>>       \* "b.txt"
nameE == <<195, 169>>                    \* e-acute in UTF-8 (one UTF-16 code unit, 233)
nameEText == <<233>>
nameD == <<100, 47>>                     \* "d/"
nameS == <<115>>                         \* "s"
nameT == <<116>>                         \* "t"
nameMissing == <<109, 105, 115, 115, 105, 110, 103, 46, 116, 120, 116>>   \* "missing.txt"
nameConstructor == <<99, 111, 110, 115, 116, 114, 117, 99, 116, 111, 114>>   \* "constructor"
nameToString == <<116, 111, 83, 116, 114, 105, 110, 103>>   \* "toString"
passwordPw == <<112, 119>>               \* "pw"
passwordNo == <<110, 111>>               \* "no"

textHello == <<104, 101, 108, 108, 111>>
textSecret == <<115, 101, 99, 114, 101, 116>>

\* raw DEFLATE streams
deflateTenA == <<75, 76, 132, 1, 0>>      \* fixed block: 'a', 'a', copy 8 from distance 1, end of block
deflateStoredHi == <<1, 2, 0, 253, 255, 104, 105>>   \* stored block "hi"
\* dynamic block whose literal/length code has the single symbol 'a' (no end of block)
deflateOnlyA == <<5, 192, 129, 0, 0, 0, 0, 0, 144, 86, 255, 23, 0>>
\* dynamic block with 'a' and length symbol 257 and an empty distance code: 'a', then a copy
deflateNoDist == <<13, 203, 129, 0, 0, 0, 0, 0, 144, 86, 255, 21, 6, 4, 0, 0>>
\* the block of deflateOnlyA followed by 1 bits, which are no code of its one-symbol code
deflateNoCode == <<5, 192, 129, 0, 0, 0, 0, 0, 144, 86, 255, 23, 255, 255, 255>>

\* fixed blocks: 'a', then a copy of 3 from distance 2; 'a', then a copy of 9 from
\* distance 1; 'a', then a copy of 3 with the distance symbol 30, which no code has
deflateFar == <<75, 4, 66, 0>>
deflateOneNine == <<75, 132, 3, 0>>
deflateDist30 == <<75, 4, 62, 0, 0>>
\* a stored block "hi" whose header byte has bits above the three header bits, then a
\* final stored block "!"
deflateTwoStored == <<168, 2, 0, 253, 255, 104, 105, 1, 1, 0, 254, 255, 33>>
\* a stored block whose second length field is not the complement of the first
deflateBadLength == <<1, 2, 0, 253, 254, 104, 105>>
\* a block of type 3
deflateType3 == <<7>>

entryA == Entry(nameA, 0, 0, 907060870, 5, 5, textHello)

entryB == Entry(nameB, 0, 8, 1276235248, 5, 10, deflateTenA)

\* the archive of the spec's scenario
bufTwo == Zip(<<entryA, entryB>>)

\* buffers without the EOCD magic
bufEmpty == <<>>

bufZeros21 == [k \in 1 .. 21 |-> 0]

\* the EOCD magic at a position whose directory offset (0) carries no CDFH magic
bufFalseEocd(entries) == <<80, 75, 3, 4>> \o EndRecord(entries, 0, 0, <<>>)

\* an archive whose comment holds the EOCD magic: a record of 5 entries whose
\* directory offset (0) carries the local-header magic
bufCommentEocd == ZipCut(<<entryA>>, 1, 0, EndRecord(5, 0, 0, <<>>))

\* a second entry with the general-purpose flag flag; one without a name and bit 6 set
bufFlag(flag) == Zip(<<entryA, Entry(nameB, flag, 8, 1276235248, 5, 10, deflateTenA)>>)

bufFlagNoName == Zip(<<entryA, Entry(<<>>, 64, 0, 0, 0, 0, <<>>)>>)

\* two entries named "a.txt", an entry named "__proto__", an entry of compression
\* method 12, a stored entry encrypted with password "pw" whose flag has bit 3, so
\* that the check byte is the top byte of the modification time (106), and an
\* encrypted entry of compression method 12 whose crc has bit 31 (check byte: its top
\* byte, 200), and a deflated entry
bufMixed ==
    Zip(<<entryA,
          Entry(nameA, 0, 0, 0, 6, 6, textSecret),
          Entry(nameProto, 0, 0, 0, 5, 5, textHello),
          Entry(nameT, 0, 12, 0, 5, 5, textHello),
          Entry(nameS, 9, 0, 0, 18, 6, encrypt(textSecret, 106, passwordPw)),
          Entry(nameB, 1, 12, -939524096, 17, 5, encrypt(textHello, 200, passwordPw)),
          Entry(nameD, 0, 8, 1276235248, 5, 10, deflateTenA)>>)

\* central directory cut short in front of a valid end record
bufCutName == ZipCut(<<entryA>>, 1, 1, <<>>)

bufCutHeader == ZipCut(<<entryA, entryB>>, 2, Len(CentralHeader(entryB, 0)), <<>>)

bufCutFixed == ZipCut(<<entryA, entryB>>, 2, 25, <<>>)

bufCutLengths == ZipCut(<<entryA, entryB>>, 2, 27, <<>>)

\* declared sizes that differ from what the stream holds
bufSizes ==
    Zip(<<Entry(nameA, 0, 8, 1276235248, 5, 5, deflateTenA),
          Entry(nameB, 0, 8, 1276235248, 5, 12, deflateTenA),
          Entry(nameS, 0, 8, 0 - 661443924, 7, 1, deflateStoredHi),
          Entry(nameT, 0, 8, 1276235248, 5, 0, deflateTenA)>>)

\* encrypted entries (password "pw"): stored, deflated, deflated with the last two
\* bytes of the stream missing, and one of 5 bytes whose crc has the top byte 250, the
\* byte that decrypt finds at index 11 with password "pw" after the 5 bytes
bufEncrypted ==
    Zip(<<Entry(nameA, 1, 0, 1554180325, 18, 6, encrypt(textSecret, 92, passwordPw)),
          Entry(nameB, 1, 8, 1276235248, 17, 10, encrypt(deflateTenA, 76, passwordPw)),
          Entry(nameS, 1, 8, 1276235248, 15, 10, encrypt(SubSeq(deflateTenA, 1, 3), 76, passwordPw)),
          Entry(nameD, 1, 0, -100663296, 5, 0, SubSeq(encrypt(textHello, 0, passwordPw), 1, 5))>>)

\* the same archive with the central directory and the end record in front and the
\* local parts behind them (in the archive comment); drop bytes are missing at the end
ZipTail(es, drop) ==
    LET cdLen == Len(CentralPart(es, 1, 0))
        loc == LocalPart(es, 1)
    IN  CentralPart(es, 1, cdLen + eocdLen) \o EndRecord(Len(es), cdLen, 0, <<>>) \o SubSeq(loc, 1, Len(loc) - drop)

\* the data region of the last entry runs past the end of the buffer
bufClippedStored == ZipTail(<<entryB, entryA>>, 2)

bufClippedDeflate == ZipTail(<<entryA, entryB>>, 2)

\* a compressed size with bit 31 set (read as -32): the region is data.subarray(31, -1)
bufNegative == Zip(<<Entry(nameB, 0, 8, 0, 0 - 32, 3, deflateOnlyA)>>)

bufNoDist ==
    Zip(<<Entry(nameB, 0, 8, 0, 16, 4, deflateNoDist),
          Entry(nameA, 0, 8, 0, 5, 4, deflateDist30),
          Entry(nameS, 0, 8, 0, 15, 4, deflateNoCode)>>)

\* deflated entries: a distance beyond the output, an overlapping copy, two stored
\* blocks, a bad stored length, a block of type 3
bufBlocks ==
    Zip(<<Entry(nameA, 0, 8, 0, 4, 4, deflateFar),
          Entry(nameB, 0, 8, 1276235248, 4, 10, deflateOneNine),
          Entry(nameS, 0, 8, 0, 13, 3, deflateTwoStored),
          Entry(nameT, 0, 8, 0, 7, 2, deflateBadLength),
          Entry(nameD, 0, 8, 0, 1, 1, deflateType3)>>)

\* a two-byte UTF-8 name with a local extra field the central header does not have,
\* a directory entry, and the entry "a.txt" of bufTwo dated one day later
bufNames ==
    Zip(<<[Entry(nameE, 0, 0, 0 - 661443924, 2, 2, <<104, 105>>) EXCEPT !.lextra = <<1, 2, 3, 4>>],
          Entry(nameD, 0, 0, 0, 0, 0, <<>>),
          [entryA EXCEPT !.date = 23074]>>)

Buffers ==
    <<bufTwo, bufEmpty, bufZeros21, bufFalseEocd(0), bufFalseEocd(1), bufCutName,
      bufCutHeader, bufCutFixed, bufCutLengths, bufSizes, bufEncrypted, bufClippedStored,
      bufClippedDeflate, bufNegative, bufNoDist, bufNames, bufCommentEocd,
      bufFlag(64), bufFlag(8192), bufFlagNoName, bufMixed, bufBlocks>>

\* the indices of Buffers
BufferIds == 1 .. 22

Names == {nameA, nameB, nameEText, nameD, nameS, nameT, nameMissing, nameConstructor}

NoPassword == [given |-> FALSE, chars |-> <<>>]

\* password "" (falsy, like the absent one)
EmptyPassword == [given |-> TRUE, chars |-> <<>>]

Passwords == {NoPassword, EmptyPassword, [given |-> TRUE, chars |-> passwordPw], [given |-> TRUE, chars |-> passwordNo]}

\* ------------------------------------------------------------------ readBinaryData

\* property names every object literal inherits from Object.prototype: entryTable[name]
\* is a function (or the prototype object) for them, none of the header fields is defined
ObjectPrototypeNames == {nameConstructor, nameToString}

\* a returned Uint8Array: a view of the archive buffer (store "archive", from begin) or
\* an array of its own; bytes are its elements when it was returned
Returned(store, begin, b, phantom, outCnt) ==
    [kind |-> "ok", msg |-> "", store |-> store, begin |-> begin, bytes |-> b, phantom |-> phantom,
     outCnt |-> outCnt, starved |-> FALSE, trace |-> NoTrace]

Thrown(msg, phantom, outCnt) ==
    [kind |-> "error", msg |-> msg, store |-> "none", begin |-> 0, bytes |-> <<>>, phantom |-> phantom,
     outCnt |-> outCnt, starved |-> FALSE, trace |-> NoTrace]

\* the call is still in inflate's loops; starved: no pass can take a byte of the data
\* any more and fnBits' check inCnt === bufEnd can no longer hold
Running(phantom, outCnt, starved) ==
    [kind |-> "running", msg |-> "", store |-> "none", begin |-> 0, bytes |-> <<>>, phantom |-> phantom,
     outCnt |-> outCnt, starved |-> starved, trace |-> NoTrace]

\* line 547 with r what inflate returned or threw, called with bufEnd on len bytes
Inflated(r, bufEnd, len) ==
    IF r.kind = "ok" THEN [Returned("own", 0, r.bytes, r.phantom, r.outCnt) EXCEPT !.trace = r.trace]
    ELSE IF r.msg = Unfinished
         THEN [Running(r.phantom, r.outCnt, r.bitCnt = NaN \/ (r.inCnt > bufEnd /\ r.inCnt >= len))
                  EXCEPT !.trace = r.trace]
    ELSE [Thrown(r.msg, r.phantom, r.outCnt) EXCEPT !.trace = r.trace]

\* the same lines without the else branch: every method but 8 is returned as stored
DecompressAsStored(cdfh, fileData, store, begin) ==
    IF cdfh.compressionMethod = 8
    THEN Inflated(inflate(fileData, 0, cdfh.compressedSize, cdfh.size), cdfh.compressedSize, Len(fileData))
    ELSE Returned(store, begin, fileData, 0, Len(fileData))

\* lines 545-551 for the bytes fileData of an entry
Decompress(cdfh, fileData, store, begin) ==
    IF cdfh.compressionMethod = 0 THEN Returned(store, begin, fileData, 0, Len(fileData))
    ELSE IF cdfh.compressionMethod = 8
         THEN Inflated(inflate(fileData, 0, cdfh.compressedSize, cdfh.size), cdfh.compressedSize, Len(fileData))
    ELSE Thrown("Zip: readBinaryData: compression method not supported", 0, 0)

\* lines 542-551 with plain what ZipCrypto.decrypt returned or threw
Decrypted(plain, cdfh) ==
    IF plain.kind = "error" THEN Thrown(plain.msg, 0, 0) ELSE Decompress(cdfh, plain.bytes, "own", 0)

\* the same lines with the test password === undefined in place of !password
ExtractUndefinedOnly(d, cdfh, fileData, password) ==
    IF isEncrypted(cdfh) = 1
    THEN IF ~password.given THEN Thrown("Zip: Password required", 0, 0)
         ELSE Decrypted(decrypt(createCrcTable, fileData, cdfh, password.chars), cdfh)
    ELSE Decompress(cdfh, fileData, "archive", SubBegin(d, cdfh.dataStart))

\* lines 537-551 for the entry cdfh and its region fileData of buffer d; the crc table
\* in use is createCrcTable(), whether this call builds it or an earlier one did
Extract(d, cdfh, fileData, password) ==
    IF isEncrypted(cdfh) = 1
    THEN IF ~password.given \/ password.chars = <<>> THEN Thrown("Zip: Password required", 0, 0)
         ELSE Decrypted(decrypt(createCrcTable, fileData, cdfh, password.chars), cdfh)
    ELSE Decompress(cdfh, fileData, "archive", SubBegin(d, cdfh.dataStart))

\* readBinaryData(name, password) on buffer d with directory table
readBinaryData(d, table, name, password) ==
    IF name \notin DOMAIN table
    THEN IF name \in ObjectPrototypeNames
         THEN Thrown("Zip: readBinaryData: compression method not supported", 0, 0)
         ELSE Thrown("Zip: readBinaryData: File does not exist", 0, 0)
    ELSE Extract(d, table[name], subarray(d, table[name].dataStart, table[name].dataStart + table[name].compressedSize),
                 password)

\* ------------------------------------------------------------------ the ZipFile object and its caller

VARIABLES
    textDecoder,   \* the static ZipFile.textDecoder: "TextDecoder" or "polyfill"
    live,          \* a ZipFile object exists (its constructor returned)
    optData,       \* this.options.data: the id of a caller's buffer, 0 before the first call
    data,          \* this.data: the id of a caller's buffer
    bytes,         \* the elements of the buffer this.data refers to
    entryTable,    \* this.entryTable
    call,          \* the last call: [op, name, password]
    ret,           \* what the last call returned or threw
    written,       \* the caller has stored into the array the last call returned
    crcTable       \* the static ZipCrypto.crcTable: NoTable before crc32 is first called

vars == <<textDecoder, live, optData, data, bytes, entryTable, call, ret, written, crcTable>>

NoCall == [op |-> "none", name |-> <<>>, password |-> NoPassword, buffer |-> 0]

Call(op, name, password, buffer) == [op |-> op, name |-> name, password |-> password, buffer |-> buffer]

Ok == [kind |-> "ok", msg |-> "", store |-> "none", begin |-> 0, bytes |-> <<>>, phantom |-> 0,
       outCnt |-> 0, starved |-> FALSE, trace |-> NoTrace]

Decoders == {"TextDecoder", "polyfill"}

\* readZipDirectory of the buffers as the caller first holds them, computed once
PristineDirectory == [dec \in Decoders |-> [k \in BufferIds |-> readZipDirectory(dec, Buffers[k])]]

\* the least index readZipDirectory reads in buffer k when the scan of lines 185-192
\* accepts a position: the scan reads from the end down to it, the walk of lines
\* 201-246 from the offset it holds upwards; 0 when the scan reads down to index 0
ReadStart(d) ==
    IF FindEocd(d).found THEN Max(0, SetMin({FindEocd(d).pos, getUint32(d, FindEocd(d).pos + 16)})) ELSE 0

DirectoryStart == [k \in BufferIds |-> ReadStart(Buffers[k])]

\* the sequences a and b have the same elements from index n on
SameFrom(a, b, n) == SubSeq(a, n + 1, Len(a)) = SubSeq(b, n + 1, Len(b))

\* this.readZipDirectory() when this.data is buffer k with the elements content: that
\* of the buffer as first held when the elements it reads are the same
Directory(dec, k, content) ==
    IF SameFrom(content, Buffers[k], DirectoryStart[k]) THEN PristineDirectory[dec][k]
    ELSE readZipDirectory(dec, content)

\* the buffer object k as the caller holds it: the live object's own buffer keeps what
\* was stored into it through a returned view
BufferBytes(k) == IF live /\ k = data THEN bytes ELSE Buffers[k]

Init ==
    /\ textDecoder \in Decoders
    /\ live = FALSE
    /\ optData = 0
    /\ data = 0
    /\ bytes = <<>>
    /\ entryTable = EmptyTable
    /\ call = NoCall
    /\ ret = Ok
    /\ written = FALSE
    /\ crcTable = NoTable

\* new ZipFile({data}): setOptions(options, true); nothing is constructed when it throws
Construct(k) ==
    LET dir == PristineDirectory[textDecoder][k]
    IN  /\ ~live
        /\ call' = Call("new", <<>>, NoPassword, k)
        /\ written' = FALSE
        /\ IF dir.kind = "ok"
           THEN /\ live' = TRUE
                /\ optData' = k
                /\ data' = k
                /\ bytes' = Buffers[k]
                /\ entryTable' = dir.table
                /\ ret' = Ok
           ELSE /\ ret' = Thrown(dir.msg, 0, 0)
                /\ UNCHANGED <<live, optData, data, bytes, entryTable>>
        /\ UNCHANGED <<textDecoder, crcTable>>

\* setOptions that reads the directory at every call
SetOptionsRebuilding(k, force) ==
    LET content == BufferBytes(k)
        dir == Directory(textDecoder, k, content)
    IN  /\ live
        /\ call' = Call(IF force THEN "setOptions(force)" ELSE "setOptions", <<>>, NoPassword, k)
        /\ written' = FALSE
        /\ optData' = k
        /\ data' = k
        /\ bytes' = content
        /\ IF dir.kind = "ok"
           THEN entryTable' = dir.table /\ ret' = Ok
           ELSE ret' = Thrown(dir.msg, 0, 0) /\ UNCHANGED entryTable
        /\ UNCHANGED <<textDecoder, live, crcTable>>

\* setOptions({data: buffer k}, force)
SetOptions(k, force) ==
    LET content == BufferBytes(k)
        dir == Directory(textDecoder, k, content)
    IN  /\ live
        /\ call' = Call(IF force THEN "setOptions(force)" ELSE "setOptions", <<>>, NoPassword, k)
        /\ written' = FALSE
        /\ optData' = k
        /\ IF force \/ k # optData
           THEN /\ data' = k
                /\ bytes' = content
                /\ IF dir.kind = "ok"
                   THEN entryTable' = dir.table /\ ret' = Ok
                   ELSE ret' = Thrown(dir.msg, 0, 0) /\ UNCHANGED entryTable
           ELSE ret' = Ok /\ UNCHANGED <<data, bytes, entryTable>>
        /\ UNCHANGED <<textDecoder, live, crcTable>>

\* getZipDirectory()
GetZipDirectory ==
    /\ live
    /\ call' = Call("getZipDirectory", <<>>, NoPassword, 0)
    /\ ret' = Ok
    /\ written' = FALSE
    /\ UNCHANGED <<textDecoder, live, optData, data, bytes, entryTable, crcTable>>

\* readBinaryData on buffer k as the caller first holds it with the directory the open
\* of buffer k2 built (dirs[k2]), computed once: this.data is k and this.entryTable
\* that of k2 after k2 was opened and then setOptions on k threw
PristineReadWith(dirs) ==
    [k \in BufferIds |-> [k2 \in BufferIds |-> [name \in Names |-> [password \in Passwords |->
        IF dirs[k2].kind = "ok" /\ (k = k2 \/ dirs[k].kind = "error")
        THEN readBinaryData(Buffers[k], dirs[k2].table, name, password)
        ELSE Ok]]]]

PristineRead == [dec \in Decoders |-> PristineReadWith(PristineDirectory[dec])]

\* the buffer whose open built the directory table when this.data is buffer k, 0 when
\* PristineRead does not hold the reads of buffer k with it
TableSource(dirs, k, table) ==
    IF dirs[k].kind = "ok" /\ dirs[k].table = table THEN k
    ELSE IF dirs[k].kind = "error" /\ \E k2 \in BufferIds : dirs[k2].kind = "ok" /\ dirs[k2].table = table
         THEN SetMin({k2 \in BufferIds : dirs[k2].kind = "ok" /\ dirs[k2].table = table})
    ELSE 0

\* the elements of this.data that readBinaryData reads for the entry cdfh (the
\* subarray of line 537) are those of the buffer as the caller first held it
RegionPristine(cdfh) ==
    subarray(bytes, cdfh.dataStart, cdfh.dataStart + cdfh.compressedSize)
    = subarray(Buffers[data], cdfh.dataStart, cdfh.dataStart + cdfh.compressedSize)

\* readBinaryData(name, password) with src the buffer whose open built this.entryTable
ReadFrom(src, name, password) ==
    IF src # 0 /\ (name \notin DOMAIN entryTable \/ RegionPristine(entryTable[name]))
    THEN PristineRead[textDecoder][data][src][name][password]
    ELSE readBinaryData(bytes, entryTable, name, password)

\* readBinaryData(name, password) reaches line 542: the entry is encrypted and a
\* password is given (decrypt then calls crc32, at the latest for the first header byte)
DecryptCalled(name, password) ==
    /\ name \in DOMAIN entryTable
    /\ isEncrypted(entryTable[name]) = 1
    /\ password.given /\ password.chars # <<>>

\* readBinaryData(name, password); ret.kind is "running" when the call is still in
\* inflate's loops after MaxSteps passes
ReadBinaryData(name, password) ==
    /\ live
    /\ call' = Call("readBinaryData", name, password, 0)
    /\ ret' = ReadFrom(TableSource(PristineDirectory[textDecoder], data, entryTable), name, password)
    /\ written' = FALSE
    /\ crcTable' = IF DecryptCalled(name, password) THEN Table(TableInUse(crcTable)) ELSE crcTable
    /\ UNCHANGED <<textDecoder, live, optData, data, bytes, entryTable>>

\* the caller stores 88 into element 0 of the array the last readBinaryData returned
WriteResult ==
    /\ live
    /\ call.op = "readBinaryData"
    /\ ret.kind = "ok"
    /\ Len(ret.bytes) > 0
    /\ ~written
    /\ written' = TRUE
    /\ ret' = [ret EXCEPT !.bytes[1] = 88]
    /\ bytes' = IF ret.store = "archive" THEN [bytes EXCEPT ![ret.begin + 1] = 88] ELSE bytes
    /\ UNCHANGED <<textDecoder, live, optData, data, entryTable, call, crcTable>>

\* ------------------------------------------------------------------ ZipCrypto called on its own

\* the longest plaintext and the longest password of the calls below
MaxPlain == 2

MaxPassword == 2

\* the plaintexts: the first n bytes of a sample
PlainTexts == {SubSeq(<<255, 0, 85, 170>>, 1, n) : n \in 0 .. MaxPlain}

\* <<check value, whether the header carries it in the time>>
CheckHeaders == {<<0, FALSE>>, <<200, FALSE>>, <<200, TRUE>>}

CryptoPasswords == {<<>>, passwordPw}

\* char codes of passwords: bytes and one code above 255
KeyPasswords == UNION {[1 .. n -> {255, 321}] : n \in 0 .. MaxPassword}

\* the part of a header decrypt takes: encrypted, with the check value in the top byte
\* of the time (flag bit 3) or of the crc (a signed 32-bit value, line 154)
HeaderPart(check, byTime) ==
    [flag |-> IF byTime THEN 9 ELSE 1,
     modificationTime |-> IF byTime THEN check * 256 + 1 ELSE 1,
     crc |-> IF byTime THEN 1 ELSE (IF check >= 128 THEN check - 256 ELSE check) * 16777216 + 1]

\* history: how the call before this one ended, "none" for the first call
PriorOutcome == IF call.op = "none" THEN "none" ELSE ret.kind

\* ZipCrypto.decrypt(cipher, h, password) returned or threw r; plain and key are what
\* the writer of cipher encrypted and the password it used
DecryptCall(cipher, h, password, plain, key, r) ==
    /\ call' = [op |-> "decrypt", cipher |-> cipher, cdfh |-> h, password |-> password, plain |-> plain, key |-> key,
                prior |-> PriorOutcome]
    /\ ret' = [kind |-> r.kind, msg |-> r.msg, bytes |-> IF r.kind = "ok" THEN r.bytes ELSE <<>>]
    /\ crcTable' = Table(TableInUse(crcTable))
    /\ UNCHANGED <<textDecoder, live, optData, data, bytes, entryTable, written>>

\* a decrypt that goes on from the keys the last decrypt left
DecryptReusingKeys(cipher, h, password, plain, key) ==
    DecryptCall(cipher, h, password, plain, key,
                decryptWith(TableInUse(crcTable),
                            IF call.op = "decrypt"
                            THEN DecryptRange(createCrcTable, initKeys(createCrcTable, call.password), call.cipher,
                                              0, Len(call.cipher) - 1, <<>>)[1]
                            ELSE initKeys(TableInUse(crcTable), password),
                            cipher, h))

\* ZipCrypto.decrypt(cipher, h, password)
Decrypt(cipher, h, password, plain, key) ==
    DecryptCall(cipher, h, password, plain, key, decrypt(TableInUse(crcTable), cipher, h, password))

\* initKeys(password), as decrypt calls it at line 68; ret holds the keys
InitKeys(password) ==
    /\ call' = [op |-> "initKeys", cipher |-> <<>>, cdfh |-> HeaderPart(0, FALSE), password |-> password,
                plain |-> <<>>, key |-> <<>>, prior |-> PriorOutcome]
    /\ ret' = [kind |-> "ok", msg |-> "", bytes |-> <<>>, keys |-> initKeys(TableInUse(crcTable), password)]
    /\ crcTable' = IF password = <<>> THEN crcTable ELSE Table(TableInUse(crcTable))
    /\ UNCHANGED <<textDecoder, live, optData, data, bytes, entryTable, written>>

CryptoNext ==
    \/ \E plain \in PlainTexts, h \in CheckHeaders, key \in CryptoPasswords, password \in CryptoPasswords :
            Decrypt(encrypt(plain, h[1], key), HeaderPart(h[1], h[2]), password, plain, key)
    \/ \E password \in KeyPasswords : InitKeys(password)

CryptoSpec == Init /\ [][CryptoNext]_vars

\* ------------------------------------------------------------------ the Huffman decoder alone

MaxSymbols == 3

MaxCodeLength == 3

MaxBytes == 2

\* lens2 of fnInflateConstruct: a length of 0 .. MaxCodeLength for each of n symbols
CodeLengthLists == UNION {[1 .. n -> 0 .. MaxCodeLength] : n \in 1 .. MaxSymbols}

\* the lists fnInflateConstruct builds a table for (it returns no negative value)
AcceptedLists == {l \in CodeLengthLists : fnInflateConstruct(l, Len(l)).left >= 0}

\* the input of the decoder: bytes whose bits fnBits hands out lowest first
BitStrings == UNION {[1 .. n -> {0, 3, 90, 255}] : n \in 0 .. MaxBytes}

\* the lengths fnConstructFixedHuffman writes (lines 293-308)
FixedLengths(table) == IF table = "fixedLen" THEN fixedLens ELSE [k \in 1 .. 30 |-> 5]

HuffmanInputs ==
    [op : {"bits"}, table : {"own"}, lens : AcceptedLists, bits : BitStrings]
    \cup [op : {"bits"}, table : {"fixedLen", "fixedDist"}, lens : {<<>>}, bits : BitStrings]

HuffmanInit ==
    /\ textDecoder = "TextDecoder"
    /\ live = FALSE
    /\ optData = 0
    /\ data = 0
    /\ bytes = <<>>
    /\ entryTable = EmptyTable
    /\ call \in HuffmanInputs
    /\ ret = Ok
    /\ written = FALSE
    /\ crcTable = NoTable

\* what a fnDecode call on a fresh decoder left: the symbol or null, the thrown error,
\* and the bits taken from the input (8 per byte read, less those still buffered)
Decoded(s) ==
    [kind |-> IF s.err = "" THEN "ok" ELSE "error", msg |-> s.err, symbol |-> s.v,
     used |-> 8 * s.inCnt - s.bitCnt]

\* fnDecode(codes) at the start of the input call.bits, codes built by fnInflateConstruct
\* from call.lens
DecodeSymbol ==
    /\ call.op = "bits" /\ call.table = "own"
    /\ call' = [call EXCEPT !.op = "fnDecode"]
    /\ ret' = Decoded(fnDecode(InflateStart(0, 0), call.bits, Len(call.bits),
                               fnInflateConstruct(call.lens, Len(call.lens))))
    /\ UNCHANGED <<textDecoder, live, optData, data, bytes, entryTable, written, crcTable>>

\* fnDecode(lenCode) and fnDecode(distCode) with the tables of fnConstructFixedHuffman
DecodeFixed ==
    /\ call.op = "bits" /\ call.table \in {"fixedLen", "fixedDist"}
    /\ call' = [call EXCEPT !.op = "fnDecode", !.lens = FixedLengths(call.table)]
    /\ ret' = Decoded(fnDecode(InflateStart(0, 0), call.bits, Len(call.bits),
                               IF call.table = "fixedLen" THEN fixedLenCode ELSE fixedDistCode))
    /\ UNCHANGED <<textDecoder, live, optData, data, bytes, entryTable, written, crcTable>>

HuffmanNext == DecodeSymbol \/ DecodeFixed

HuffmanSpec == HuffmanInit /\ [][HuffmanNext]_vars

\* ------------------------------------------------------------------ the header of a dynamic block alone

MaxDrop == 1

\* A header is written from its description: the three counts, the lengths of the code
\* length code by symbol, and the items of the length list, each <<symbol, extra>> with
\* the value of the extra bits of the symbols 16, 17 and 18.
NumberBits(v, n) == [i \in 1 .. n |-> (v \div (2 ^ (i - 1))) % 2]

CodeBits(code, len) == [i \in 1 .. len |-> (code \div (2 ^ (len - i))) % 2]

ExtraBits(symbol) == IF symbol = 16 THEN 2 ELSE IF symbol = 17 THEN 3 ELSE IF symbol = 18 THEN 7 ELSE 0

\* the canonical code of the code length code cl, by symbol
CanonicalFirst(cl, len) ==
    LET F[n \in 1 .. 7] ==
            IF n = 1 THEN 0 ELSE 2 * (F[n - 1] + Cardinality({k \in 1 .. 19 : cl[k] = n - 1}))
    IN  F[len]

CanonicalCode(cl, symbol) ==
    CanonicalFirst(cl, cl[symbol + 1]) + Cardinality({k \in 1 .. symbol : cl[k] = cl[symbol + 1]})

ItemBits(cl, item) ==
    (IF cl[item[1] + 1] = 0 THEN <<>> ELSE CodeBits(CanonicalCode(cl, item[1]), cl[item[1] + 1]))
    \o NumberBits(item[2], ExtraBits(item[1]))

RECURSIVE ItemsBits(_, _, _)
ItemsBits(cl, items, k) == IF k > Len(items) THEN <<>> ELSE ItemBits(cl, items[k]) \o ItemsBits(cl, items, k + 1)

RECURSIVE CodeLengthBits(_, _, _)
CodeLengthBits(cl, nCode, i) ==
    IF i > nCode THEN <<>> ELSE NumberBits(cl[dynamicTableOrder[i] + 1], 3) \o CodeLengthBits(cl, nCode, i + 1)

HeaderBits(h) ==
    NumberBits(h.nLen - 257, 5) \o NumberBits(h.nDist - 1, 5) \o NumberBits(h.nCode - 4, 4)
    \o CodeLengthBits(h.cl, h.nCode, 1) \o ItemsBits(h.cl, h.items, 1)

BitOr0(bits, n) == IF n <= Len(bits) THEN bits[n] ELSE 0

\* the bits as bytes, lowest bit first, the last byte filled with zeros
PackBits(bits) ==
    [k \in 1 .. ((Len(bits) + 7) \div 8) |->
        BitOr0(bits, 8 * k - 7) + 2 * BitOr0(bits, 8 * k - 6) + 4 * BitOr0(bits, 8 * k - 5)
        + 8 * BitOr0(bits, 8 * k - 4) + 16 * BitOr0(bits, 8 * k - 3) + 32 * BitOr0(bits, 8 * k - 2)
        + 64 * BitOr0(bits, 8 * k - 1) + 128 * BitOr0(bits, 8 * k)]

\* the input: the header's bytes without the last h.drop of them
HeaderStream(h) ==
    LET whole == PackBits(HeaderBits(h))
    IN  SubSeq(whole, 1, Len(whole) - h.drop)

\* the lengths of a code length code: by symbol 0 .. 18
CodeLengthCode(l0, l1, l2, l16, l17, l18) ==
    [k \in 1 .. 19 |-> IF k = 1 THEN l0 ELSE IF k = 2 THEN l1 ELSE IF k = 3 THEN l2
                       ELSE IF k = 17 THEN l16 ELSE IF k = 18 THEN l17 ELSE IF k = 19 THEN l18 ELSE 0]

clComplete == CodeLengthCode(2, 2, 3, 4, 4, 2)

CodeLengthCodes ==
    {clComplete, CodeLengthCode(2, 2, 3, 4, 0, 2), CodeLengthCode(2, 2, 3, 4, 3, 2),
     CodeLengthCode(0, 0, 0, 0, 0, 0), CodeLengthCode(1, 0, 0, 0, 0, 0)}

RECURSIVE ZeroItems(_)
\* n zero lengths in the fewest items
ZeroItems(n) ==
    IF n <= 0 THEN <<>>
    ELSE IF n <= 2 THEN <<<<0, 0>>>> \o ZeroItems(n - 1)
    ELSE IF n <= 10 THEN <<<<17, n - 3>>>>
    ELSE IF n <= 138 THEN <<<<18, n - 11>>>>
    ELSE <<<<18, 127>>>> \o ZeroItems(n - 138)

\* the number of lengths an item gives
ItemCount(item) ==
    IF item[1] < 16 THEN 1 ELSE IF item[1] = 18 THEN 11 + item[2] ELSE 3 + item[2]

RECURSIVE ItemsCount(_, _)
ItemsCount(items, k) == IF k > Len(items) THEN 0 ELSE ItemCount(items[k]) + ItemsCount(items, k + 1)

\* the items at the start of the list (the first literals) and at its end (the distances)
HeadItems ==
    {<<<<1, 0>>, <<1, 0>>>>, <<<<2, 0>>, <<16, 0>>>>, <<<<16, 0>>>>, <<<<1, 0>>>>,
     <<<<1, 0>>, <<16, 0>>>>, <<<<2, 0>>, <<2, 0>>>>, <<<<17, 7>>>>,
     <<<<0, 0>>, <<16, 3>>, <<1, 0>>, <<1, 0>>>>}

TailItems ==
    {<<>>, <<<<1, 0>>>>, <<<<1, 0>>, <<1, 0>>>>, <<<<2, 0>>, <<2, 0>>>>, <<<<16, 0>>>>, <<<<2, 0>>, <<16, 0>>>>}

\* a list of head, zeros and tail that gives nLen + nDist + over lengths
Header(nLen, nDist, nCode, cl, head, tail, over, drop) ==
    [op |-> "header", nLen |-> nLen, nDist |-> nDist, nCode |-> nCode, cl |-> cl,
     items |-> head \o ZeroItems(nLen + nDist + over - ItemsCount(head, 1) - ItemsCount(tail, 1)) \o tail,
     drop |-> drop]

DynamicInputs ==
    {Header(nLen, nDist, 19, clComplete, <<<<1, 0>>, <<1, 0>>>>, <<<<1, 0>>>>, 0, 0) :
        nLen \in {257, 286, 287, 288}, nDist \in {1, 30, 31, 32}}
    \cup {Header(257, 1, nCode, cl, <<<<1, 0>>, <<1, 0>>>>, <<<<1, 0>>>>, 0, drop) :
            nCode \in {4, 18, 19}, cl \in CodeLengthCodes, drop \in 0 .. MaxDrop}
    \cup {Header(nLen, nDist, 19, clComplete, head, tail, over, drop) :
            nLen \in {257, 258}, nDist \in {1, 2, 4}, head \in HeadItems, tail \in TailItems,
            over \in {0, 1}, drop \in 0 .. MaxDrop}

DynamicInit ==
    /\ textDecoder = "TextDecoder"
    /\ live = FALSE
    /\ optData = 0
    /\ data = 0
    /\ bytes = <<>>
    /\ entryTable = EmptyTable
    /\ call \in DynamicInputs
    /\ ret = Ok
    /\ written = FALSE
    /\ crcTable = NoTable

\* what fnConstructDynamicHuffman left on a fresh decoder: the thrown error or the two
\* tables
Constructed(r) ==
    [kind |-> IF r.s.err = "" THEN "ok" ELSE "error", msg |-> r.s.err, lenCode |-> r.lenCode,
     distCode |-> r.distCode]

\* fnConstructDynamicHuffman() at the start of the input
ConstructDynamic ==
    /\ call.op = "header"
    /\ call' = [call EXCEPT !.op = "fnConstructDynamicHuffman"]
    /\ ret' = Constructed(fnConstructDynamicHuffman(InflateStart(0, 0), HeaderStream(call), Len(HeaderStream(call))))
    /\ UNCHANGED <<textDecoder, live, optData, data, bytes, entryTable, written, crcTable>>

DynamicNext == ConstructDynamic

DynamicSpec == DynamicInit /\ [][DynamicNext]_vars

Next ==
    \/ \E k \in BufferIds : Construct(k)
    \/ \E k \in BufferIds, force \in BOOLEAN : SetOptions(k, force)
    \/ GetZipDirectory
    \/ \E name \in Names, password \in Passwords : ReadBinaryData(name, password)
    \/ WriteResult

Spec == Init /\ [][Next]_vars

\* ------------------------------------------------------------------ the error taxonomy

\* the error kind a thrown message stands for
ErrorKind(msg) ==
    CASE msg = "Zip: File ended abruptly: EOCD not found" -> "ArchiveTruncated"
      [] msg = "Zip: Bad CDFH signature" -> "CorruptDirectory"
      [] msg = "Zip Entry name missing" -> "MissingEntryName"
      [] msg \in {"Zip: Strong encryption not suppoered.", "Zip: Strong directory encryption not suppoered.",
                  "Zip: readBinaryData: compression method not supported"} -> "UnsupportedFeature"
      [] msg = "Zip: readBinaryData: File does not exist" -> "EntryNotFound"
      [] msg = "Zip: Password required" -> "PasswordRequired"
      [] msg = "ZipCrypto: The password did not match." -> "WrongPassword"
      [] msg \in {"Zip: inflate: Bad length", "Zip: inflate: unsupported compression type"} -> "CorruptBlock"
      [] msg \in {"Zip: inflate: Data overflow",
                  "Zip: inflate: length/distance code overflow", "Zip: inflate: length codes incomplete",
                  "Zip: inflate: repeat lengths with no first length", "Zip: inflate: more lengths than specified",
                  "Zip: inflate: bad literal or length codes", "Zip: inflate: Invalid length/distance",
                  "Zip: inflate: distance out of range"} -> "CorruptStream"
      [] OTHER -> "None"

\* the last call threw an error of this kind
Failed(kind) == ret.kind = "error" /\ ErrorKind(ret.msg) = kind

\* the last call was an open: the constructor, or setOptions with force
IsOpen == call.op \in {"new", "setOptions(force)"}

\* the elements of the buffer the last open read
OpenedBytes == IF call.op = "new" THEN Buffers[call.buffer] ELSE bytes

\* the last call was readBinaryData of a name the directory holds
ReadOfEntry == call.op = "readBinaryData" /\ call.name \in DOMAIN entryTable

\* ------------------------------------------------------------------ the claims

\* the EOCD magic occurs in d, and only where the record's directory offset does not
\* carry the central-directory-header magic
OnlyFalseEocd(d) == EocdCandidates(d) # {} /\ EocdAccepted(d) = {}

\* C1: an open of a buffer whose only EOCD magic is a false positive fails with
\* ArchiveTruncated, whatever entry count the candidate record holds; it returns no
\* directory and fails with no other kind
C1_FalseEocdIsArchiveTruncated ==
    IsOpen /\ OnlyFalseEocd(OpenedBytes) => Failed("ArchiveTruncated")

\* C2: a deflated entry whose decoding stores more bytes than the declared size is
\* never returned (outCnt counts the stores, the result has the declared size)
C2_NoResultAfterOverflow ==
    ReadOfEntry /\ entryTable[call.name].compressionMethod = 8 /\ ret.kind = "ok"
        => ret.outCnt <= Len(ret.bytes)

\* the data region of the entry does not lie inside the buffer
RegionClipped(cdfh) ==
    cdfh.compressedSize >= 0 /\ cdfh.dataStart + cdfh.compressedSize > Len(bytes)

\* C3: readBinaryData returns no result for an entry whose data region runs past the
\* end of the buffer, and none for a deflated entry whose stream ended with fewer
\* bytes stored than the declared size
C3_NoShortOrPaddedResult ==
    ReadOfEntry /\ ret.kind = "ok"
        => /\ ~RegionClipped(entryTable[call.name])
           /\ entryTable[call.name].compressionMethod = 8 => ret.outCnt >= entryTable[call.name].size

\* C4: no readBinaryData is left in inflate's loops with no input byte to take and
\* no buffer-exhaustion check that can still fire
C4_InflateTerminates ==
    ~(call.op = "readBinaryData" /\ ret.kind = "running" /\ ret.starved)

\* C5: the bit reader of inflate takes no byte from beyond the bytes handed to it
C5_NoBitsBeyondData ==
    call.op = "readBinaryData" => ret.phantom = 0

\* C6: the archive buffer keeps the bytes the caller supplied: the caller stores only
\* into arrays readBinaryData returned, and those share no storage with it
C6_ResultSharesNoStorage ==
    live => bytes = Buffers[data]

\* C7: after an open every entry's dataStart is localOffset + 30 + fileNameLength +
\* the extra-field length of the local header
C7_DataStartUsesNameBytes ==
    IsOpen /\ ret.kind = "ok"
        => \A name \in DOMAIN entryTable :
              entryTable[name].dataStart =
                  entryTable[name].localOffset + lfhLen + entryTable[name].fileNameLength
                      + getUint16(OpenedBytes, entryTable[name].localOffset + 28)

\* C8: readBinaryData of a name the directory does not hold fails with EntryNotFound,
\* whatever the name and the password
C8_MissingNameIsEntryNotFound ==
    call.op = "readBinaryData" /\ call.name \notin DOMAIN entryTable => Failed("EntryNotFound")

\* the headers the end record counts, walked from offset, need bytes at or behind limit
RECURSIVE HeadersPast(_, _, _, _, _)
HeadersPast(d, i, entries, offset, limit) ==
    IF i >= entries THEN FALSE
    ELSE LET h == readCdfh(d, offset)
             next == offset + cdfhLen + h.fileNameLength + h.extraFieldLength + h.fileCommentLength
         IN  next > limit \/ HeadersPast(d, i + 1, entries, next, limit)

\* d has a valid end record, and the central directory in front of it is cut short
CutShort(d) ==
    /\ EocdAccepted(d) # {}
    /\ HeadersPast(d, 0, readEocd(d, FindEocd(d).pos).entries, readEocd(d, FindEocd(d).pos).cdfhOffset,
                   FindEocd(d).pos)

\* C9: an open of a buffer with a valid end record whose central directory is cut
\* short fails with CorruptDirectory
C9_CutDirectoryIsCorruptDirectory ==
    IsOpen /\ CutShort(OpenedBytes) => Failed("CorruptDirectory")

\* d holds the EOCD magic at no position
NoEocdMagic(d) == \A i \in 0 .. Len(d) - 1 : getUint32(d, i) # eocdSignature

\* C10: an open of a buffer without the EOCD magic fails with ArchiveTruncated, and
\* the scan reads no position below max(0, length - 22 - 65535)
C10_NoEocdIsArchiveTruncated ==
    IsOpen /\ NoEocdMagic(OpenedBytes)
        => /\ Failed("ArchiveTruncated")
           /\ \A p \in ScanPositions(Len(OpenedBytes)) :
                  p >= Max(0, Len(OpenedBytes) - eocdLen - maxEocdCommentLen)

\* the positions the claim names, and those of them that hold an end record whose
\* directory offset carries the CDFH magic
EocdRange(d) == Max(0, Len(d) - eocdLen - maxEocdCommentLen) .. (Len(d) - eocdLen)

ValidEocdAt(d) ==
    {p \in EocdRange(d) : getUint32(d, p) = eocdSignature
                          /\ getUint32(d, getUint32(d, p + 16)) = cdfhSignature}

\* what the last open gave: the directory it built, or the message it threw
OpenResult == IF ret.kind = "ok" THEN [kind |-> "ok", table |-> entryTable] ELSE [kind |-> "error", msg |-> ret.msg]

\* the walk of entries headers from offset, both taken from the end record at p
WalkFrom(d, p) == WalkCdfh(textDecoder, d, 0, getUint16(d, p + 10), getUint32(d, p + 16), EmptyTable)

\* C11: when a position of the scan range holds an end record whose directory offset
\* carries the CDFH magic, the open uses the entry count and the directory offset of
\* the record at the greatest such position; candidates above it have no influence
C11_GreatestValidEocdIsUsed ==
    IsOpen /\ ValidEocdAt(OpenedBytes) # {}
        => OpenResult = WalkFrom(OpenedBytes, SetMax(ValidEocdAt(OpenedBytes)))

\* an open that succeeded although a rejected candidate lies above the record it used
C11_Witness ==
    /\ IsOpen /\ ret.kind = "ok" /\ ValidEocdAt(OpenedBytes) # {}
    /\ \E q \in EocdCandidates(OpenedBytes) : q > SetMax(ValidEocdAt(OpenedBytes))

\* the headers the walk of an open reads, in order: all up to and including the first
\* one that makes it throw
RECURSIVE WalkedHeaders(_, _, _, _)
WalkedHeaders(d, i, entries, offset) ==
    IF i >= entries THEN <<>>
    ELSE LET h == readCdfh(d, offset)
         IN  IF h.signature # cdfhSignature \/ h.fileNameLength = 0 \/ HasBit(h.flag, 64) \/ HasBit(h.flag, 8192)
             THEN <<h>>
             ELSE <<h>> \o WalkedHeaders(d, i + 1, entries,
                                         offset + cdfhLen + h.fileNameLength + h.extraFieldLength + h.fileCommentLength)

HeadersOf(d) ==
    IF FindEocd(d).found
    THEN WalkedHeaders(d, 0, readEocd(d, FindEocd(d).pos).entries, readEocd(d, FindEocd(d).pos).cdfhOffset)
    ELSE <<>>

\* flag bit 6 (strong encryption) or bit 13 (encrypted directory)
Unsupported(h) == HasBit(h.flag, 64) \/ HasBit(h.flag, 8192)

\* the header has the CDFH magic and a name
Named(h) == h.signature = cdfhSignature /\ h.fileNameLength # 0

\* no flag bit other than bit 0 and bit 3
OnlyBits0And3(h) == h.flag \in {0, 1, 8, 9}

\* C12: an open whose walk reads a header with the CDFH magic, a name and flag bit 6 or
\* bit 13 fails with UnsupportedFeature and constructs nothing; an open whose headers
\* all have the magic, a name and no flag bit but bit 0 and bit 3 does not fail
C12_StrongEncryptionFailsOpen ==
    IsOpen =>
        /\ (\E k \in DOMAIN HeadersOf(OpenedBytes) :
                Named(HeadersOf(OpenedBytes)[k]) /\ Unsupported(HeadersOf(OpenedBytes)[k]))
            => Failed("UnsupportedFeature") /\ (call.op = "new" => ~live)
        /\ (/\ FindEocd(OpenedBytes).found
            /\ \A k \in DOMAIN HeadersOf(OpenedBytes) :
                  Named(HeadersOf(OpenedBytes)[k]) /\ OnlyBits0And3(HeadersOf(OpenedBytes)[k]))
            => ret.kind = "ok"

\* an open refused for bit 13 behind an accepted first header
C12_Witness ==
    /\ IsOpen /\ Failed("UnsupportedFeature")
    /\ Len(HeadersOf(OpenedBytes)) = 2
    /\ HasBit(HeadersOf(OpenedBytes)[2].flag, 8192)

\* C12 as stated: an open whose walk reads any header with flag bit 6 or bit 13 fails
\* with UnsupportedFeature
C12_AnyFlaggedHeaderFailsOpen ==
    IsOpen /\ (\E k \in DOMAIN HeadersOf(OpenedBytes) : Unsupported(HeadersOf(OpenedBytes)[k]))
        => Failed("UnsupportedFeature")

\* the headers of a successful open with their decoded names, in the order of the walk
RECURSIVE NamedHeaders(_, _, _, _, _)
NamedHeaders(dec, d, i, entries, offset) ==
    IF i >= entries THEN <<>>
    ELSE LET h == readCdfh(d, offset)
         IN  <<[name |-> readAsUTF8(dec, d, offset + cdfhLen, h.fileNameLength), header |-> h]>>
             \o NamedHeaders(dec, d, i + 1, entries,
                             offset + cdfhLen + h.fileNameLength + h.extraFieldLength + h.fileCommentLength)

ListedHeaders ==
    NamedHeaders(textDecoder, OpenedBytes, 0, readEocd(OpenedBytes, FindEocd(OpenedBytes).pos).entries,
                 readEocd(OpenedBytes, FindEocd(OpenedBytes).pos).cdfhOffset)

\* the header of the last occurrence of name n in hs
LastOf(hs, n) == hs[SetMax({k \in DOMAIN hs : hs[k].name = n})].header

EndsInSlash(n) == Len(n) > 0 /\ n[Len(n)] = 47

\* the fields readCdfh took from the buffer are those of header h
SameHeader(cdfh, h) ==
    /\ cdfh.flag = h.flag /\ cdfh.compressionMethod = h.compressionMethod /\ cdfh.crc = h.crc
    /\ cdfh.compressedSize = h.compressedSize /\ cdfh.size = h.size /\ cdfh.localOffset = h.localOffset

\* C13: after a successful open the directory holds exactly the names of the headers
\* the end record counts, each with the header of its last occurrence, and isDirectory
\* is set exactly for the names that end in '/'
C13_DirectoryListsEveryHeader ==
    IsOpen /\ ret.kind = "ok"
        => /\ DOMAIN entryTable = {ListedHeaders[k].name : k \in DOMAIN ListedHeaders}
           /\ \A n \in DOMAIN entryTable :
                  /\ SameHeader(entryTable[n], LastOf(ListedHeaders, n))
                  /\ entryTable[n].isDirectory = EndsInSlash(n)

\* C14: readBinaryData of an entry with flag bit 0 without a password, absent or empty,
\* fails with PasswordRequired whatever the compression method; for an entry with bit 0
\* clear the result with a password is that of the call without one
C14_PasswordRequiredFirst ==
    ReadOfEntry /\ ~written =>
        /\ (HasBit(entryTable[call.name].flag, 1) /\ (~call.password.given \/ call.password.chars = <<>>))
            => Failed("PasswordRequired")
        /\ (~HasBit(entryTable[call.name].flag, 1) /\ call.password.given)
            => ret = readBinaryData(bytes, entryTable, call.name, NoPassword)

\* the empty password refused for an encrypted entry of an unsupported method
C14_Witness ==
    /\ ReadOfEntry /\ call.password = EmptyPassword
    /\ HasBit(entryTable[call.name].flag, 1) /\ entryTable[call.name].compressionMethod = 12
    /\ Failed("PasswordRequired")

\* the entry of the last readBinaryData and the bytes of its data region
ReadHeader == entryTable[call.name]

ReadRegion == subarray(bytes, ReadHeader.dataStart, ReadHeader.dataStart + ReadHeader.compressedSize)

\* the last call was readBinaryData of an encrypted entry with a non-empty password
ReadWithPassword ==
    /\ ReadOfEntry /\ ~written
    /\ HasBit(ReadHeader.flag, 1)
    /\ call.password.given /\ call.password.chars # <<>>

\* byte 11 of the 12 header bytes decrypted with the password of the last call
HeaderByte11 == DecryptRange(createCrcTable, initKeys(createCrcTable, call.password.chars), ReadRegion, 0, 11, <<>>)[2][12]

\* the check value: the top byte of the time with flag bit 3, of the crc without
CheckValue ==
    IF HasBit(ReadHeader.flag, 8) THEN (ReadHeader.modificationTime \div 256) % 256
    ELSE (ReadHeader.crc \div 16777216) % 256

\* the bytes after the 12 header bytes, decrypted with the password of the last call
Plaintext ==
    DecryptRange(createCrcTable,
                 DecryptRange(createCrcTable, initKeys(createCrcTable, call.password.chars), ReadRegion, 0, 11, <<>>)[1],
                 ReadRegion, 12, Len(ReadRegion) - 1, <<>>)[2]

\* C15: the password is refused with WrongPassword, and no bytes are returned, exactly
\* when byte 11 of the decrypted header differs from the check value (top byte of the
\* time with flag bit 3, top byte of the crc otherwise); when it is accepted and 12
\* header bytes are there, the call goes on with the decrypted bytes
C15_CheckByteDecides ==
    ReadWithPassword =>
        /\ HeaderByte11 # CheckValue => Failed("WrongPassword") /\ ret.bytes = <<>>
        /\ HeaderByte11 = CheckValue =>
            /\ ~Failed("WrongPassword")
            /\ Len(ReadRegion) >= 12 => ret = Decompress(ReadHeader, Plaintext, "own", 0)

\* a stored entry with flag bit 3 whose check value is the top byte of the time, read
\* with the right password
C15_Witness ==
    /\ ReadWithPassword
    /\ HasBit(ReadHeader.flag, 8) /\ HeaderByte11 = 106 /\ (ReadHeader.crc \div 16777216) % 256 # 106
    /\ ret.kind = "ok" /\ ret.bytes = textSecret

UnsupportedMethod(h) == h.compressionMethod \notin {0, 8}

\* the last readBinaryData got past the password: the entry is not encrypted, or the
\* password passed the check byte and the 12 header bytes are there
PastPassword ==
    \/ ~HasBit(ReadHeader.flag, 1)
    \/ ReadWithPassword /\ HeaderByte11 = CheckValue /\ Len(ReadRegion) >= 12

\* an open over headers one of which has a method other than 0 and 8 succeeds when
\* nothing else is wrong
OpenIgnoresMethod ==
    (/\ IsOpen /\ FindEocd(OpenedBytes).found
     /\ \E k \in DOMAIN HeadersOf(OpenedBytes) : UnsupportedMethod(HeadersOf(OpenedBytes)[k])
     /\ \A k \in DOMAIN HeadersOf(OpenedBytes) :
           Named(HeadersOf(OpenedBytes)[k]) /\ OnlyBits0And3(HeadersOf(OpenedBytes)[k]))
    => ret.kind = "ok"

\* the read of an entry of such a method that got past the password fails
UnsupportedMethodFails ==
    (ReadOfEntry /\ ~written /\ UnsupportedMethod(ReadHeader) /\ PastPassword)
    => Failed("UnsupportedFeature") /\ ret.bytes = <<>>

\* the failed read changes nothing, and the next read returns what readBinaryData gives
\* on the object as it was: the region of a stored unencrypted entry, the inflated
\* bytes of a deflated one
ReadAfterUnsupported ==
    (/\ ReadOfEntry /\ UnsupportedMethod(ReadHeader) /\ Failed("UnsupportedFeature")
     /\ call'.op = "readBinaryData" /\ call'.name \in DOMAIN entryTable)
    => /\ UNCHANGED <<data, bytes, entryTable>>
       /\ ret' = readBinaryData(bytes, entryTable, call'.name, call'.password)
       /\ (~HasBit(entryTable[call'.name].flag, 1) /\ entryTable[call'.name].compressionMethod = 0)
           => /\ ret'.kind = "ok"
              /\ ret'.bytes = subarray(bytes, entryTable[call'.name].dataStart,
                                        entryTable[call'.name].dataStart + entryTable[call'.name].compressedSize)

LocalDataStart(h) ==
    h.localOffset + lfhLen + getUint16(bytes, h.localOffset + 26) + getUint16(bytes, h.localOffset + 28)

\* the entry of the last readBinaryData is as a store-mode writer leaves it: method 0,
\* not encrypted, compressedSize = size, a local header with the same name length in
\* front of the data, the data inside the buffer
StoredWellFormed ==
    /\ ReadOfEntry /\ ~written
    /\ ReadHeader.compressionMethod = 0 /\ ~HasBit(ReadHeader.flag, 1)
    /\ ReadHeader.compressedSize = ReadHeader.size
    /\ ReadHeader.localOffset >= 0
    /\ getUint32(bytes, ReadHeader.localOffset) = lfhSignature
    /\ getUint16(bytes, ReadHeader.localOffset + 26) = ReadHeader.fileNameLength
    /\ LocalDataStart(ReadHeader) + ReadHeader.size <= Len(bytes)

\* C17: readBinaryData of a store-mode entry of a well-formed archive returns the bytes
\* of the entry's data, and as many as the header's size
C17_StoredRoundTrip ==
    StoredWellFormed =>
        /\ ret.kind = "ok"
        /\ Len(ret.bytes) = ReadHeader.size
        /\ ret.bytes = SubSeq(bytes, LocalDataStart(ReadHeader) + 1, LocalDataStart(ReadHeader) + ReadHeader.size)

\* C18: a length/distance pair whose distance exceeds the bytes produced so far fails
\* with CorruptStream with no byte of the copy stored (the count of bytes produced is
\* still below the distance), and no copy is made with a distance outside
\* 1 .. bytes produced
C18_DistanceWithinOutput ==
    call.op = "readBinaryData" =>
        /\ ret.trace.far > 0 => Failed("CorruptStream") /\ ret.outCnt < ret.trace.far /\ ret.bytes = <<>>
        /\ ret.trace.stray = 0

\* the last readBinaryData returned the inflated bytes, and the last copy inflate made
\* had a distance within the bytes produced and lies inside the result
CopyReturned ==
    /\ ReadOfEntry /\ ~written /\ ret.kind = "ok"
    /\ ret.trace.copyLen > 0
    /\ ret.trace.copyDist >= 1 /\ ret.trace.copyDist <= ret.trace.copyAt
    /\ ret.trace.copyAt + ret.trace.copyLen <= Len(ret.bytes)

\* C19: a copy of length L with distance d at output position p leaves
\* out[p + k] = out[p + k - d] for every 0 <= k < L, also when d < L, and the output
\* position is then p + L or beyond; 'a' followed by a copy of 9 from distance 1 gives
\* ten 'a' and the position 10
C19_OverlappingCopy ==
    CopyReturned =>
        /\ \A k \in 0 .. ret.trace.copyLen - 1 :
              ret.bytes[ret.trace.copyAt + k + 1] = ret.bytes[ret.trace.copyAt + k - ret.trace.copyDist + 1]
        /\ ret.outCnt >= ret.trace.copyAt + ret.trace.copyLen
        /\ (ReadRegion = deflateOneNine /\ ReadHeader.size = 10)
            => ret.bytes = [k \in 1 .. 10 |-> 97] /\ ret.outCnt = 10

\* 'a' and the copy of 9 from distance 1
C19_Witness ==
    /\ CopyReturned /\ ReadRegion = deflateOneNine
    /\ ret.trace.copyAt = 1 /\ ret.trace.copyLen = 9 /\ ret.trace.copyDist = 1
    /\ ret.bytes = [k \in 1 .. 10 |-> 97]

\* the stored blocks at the start of the stream d, read from index i on byte boundaries
\* with acc the data of the blocks before: "ok" when the final block is a stored one
\* inside d (next is the index behind it), "badLength" and "type3" when the first block
\* that is no good stored block has a wrong complement or the type 3, "other" otherwise
RECURSIVE StoredBlocks(_, _, _)
StoredBlocks(d, i, acc) ==
    IF i >= Len(d) THEN [kind |-> "other", bytes |-> acc, next |-> i]
    ELSE IF (d[i + 1] \div 2) % 4 = 3 THEN [kind |-> "type3", bytes |-> acc, next |-> i]
    ELSE IF (d[i + 1] \div 2) % 4 # 0 \/ i + 5 > Len(d) THEN [kind |-> "other", bytes |-> acc, next |-> i]
    ELSE IF d[i + 2] + d[i + 4] # 255 \/ d[i + 3] + d[i + 5] # 255
         THEN [kind |-> "badLength", bytes |-> acc, next |-> i]
    ELSE IF i + 5 + d[i + 2] + 256 * d[i + 3] > Len(d) THEN [kind |-> "other", bytes |-> acc, next |-> i]
    ELSE IF d[i + 1] % 2 = 1
         THEN [kind |-> "ok", bytes |-> acc \o SubSeq(d, i + 6, i + 5 + d[i + 2] + 256 * d[i + 3]),
               next |-> i + 5 + d[i + 2] + 256 * d[i + 3]]
    ELSE StoredBlocks(d, i + 5 + d[i + 2] + 256 * d[i + 3],
                      acc \o SubSeq(d, i + 6, i + 5 + d[i + 2] + 256 * d[i + 3]))

\* the last readBinaryData inflated the whole data region of an unencrypted entry
InflatedRegion ==
    /\ ReadOfEntry /\ ~written
    /\ ReadHeader.compressionMethod = 8 /\ ~HasBit(ReadHeader.flag, 1)
    /\ ReadHeader.compressedSize = Len(ReadRegion) /\ ReadHeader.size >= 0

\* C20: inflate fails with CorruptBlock at a block of type 3 and at a stored block
\* whose second length field is not the complement of the first; a stream of good
\* stored blocks gives the data of the blocks, LEN bytes each, and is read up to the
\* byte behind the last block, every block header taken from a byte of its own
C20_StoredBlocks ==
    InflatedRegion =>
        /\ StoredBlocks(ReadRegion, 0, <<>>).kind \in {"type3", "badLength"}
            => Failed("CorruptBlock") /\ ret.bytes = <<>>
        /\ (/\ StoredBlocks(ReadRegion, 0, <<>>).kind = "ok"
            /\ Len(StoredBlocks(ReadRegion, 0, <<>>).bytes) <= ReadHeader.size)
            => /\ ret.kind = "ok"
               /\ SubSeq(ret.bytes, 1, ret.outCnt) = StoredBlocks(ReadRegion, 0, <<>>).bytes
               /\ ret.trace.inCnt = StoredBlocks(ReadRegion, 0, <<>>).next

\* two stored blocks, the first with other bits in its header byte, read to the end
C20_Witness ==
    /\ InflatedRegion /\ ReadRegion = deflateTwoStored
    /\ ret.kind = "ok" /\ ret.bytes = <<104, 105, 33>> /\ ret.trace.inCnt = 13

\* the step is a call of setOptions that has to read the directory: force is set, or
\* the buffer is not the one options.data held
Resupplied == call'.op = "setOptions(force)" \/ (call'.op = "setOptions" /\ call'.buffer # optData)

\* C24: getZipDirectory and readBinaryData leave the directory as it is, whatever they
\* return; so does setOptions without force for the buffer options.data holds, which
\* reads nothing and cannot fail; setOptions with force or with another buffer makes
\* the directory the one read from that buffer, and leaves it when the read throws
C24_DirectoryFrame ==
    [][/\ call'.op \in {"getZipDirectory", "readBinaryData"} => entryTable' = entryTable
       /\ (call'.op = "setOptions" /\ call'.buffer = optData) => entryTable' = entryTable /\ ret' = Ok
       /\ Resupplied =>
            /\ data' = call'.buffer
            /\ Directory(textDecoder, data', bytes').kind = ret'.kind
            /\ entryTable' = IF ret'.kind = "ok" THEN Directory(textDecoder, data', bytes').table ELSE entryTable]_vars

\* setOptions with another buffer replaced the directory of bufTwo by that of bufMixed,
\* and a read of a missing name followed
C24_Witness ==
    /\ call.op = "readBinaryData" /\ ret.kind = "error" /\ call.name = nameMissing
    /\ data = 21 /\ optData = 21
    /\ entryTable = readZipDirectory(textDecoder, Buffers[21]).table
    /\ nameT \in DOMAIN entryTable

\* C25: readBinaryData of a directory entry (a name of the directory that ends in '/')
\* throws the error of a file that does not exist and returns no bytes
C25_DirectoriesCannotBeRead ==
    (ReadOfEntry /\ entryTable[call.name].isDirectory /\ EndsInSlash(call.name))
        => ret.kind = "error" /\ ret.msg = "Zip: readBinaryData: File does not exist"

\* name, DOS time (header offset 12) and DOS date (header offset 14) of the headers
\* of a directory, in the order of the walk
RECURSIVE DosFields(_, _, _, _, _)
DosFields(dec, d, i, entries, offset) ==
    IF i >= entries THEN <<>>
    ELSE <<[name |-> readAsUTF8(dec, d, offset + cdfhLen, getUint16(d, offset + 28)),
            time |-> getUint16(d, offset + 12), date |-> getUint16(d, offset + 14)]>>
         \o DosFields(dec, d, i + 1, entries,
                      offset + cdfhLen + getUint16(d, offset + 28) + getUint16(d, offset + 30)
                      + getUint16(d, offset + 32))

DosFieldsOf(d) ==
    DosFields(textDecoder, d, 0, readEocd(d, FindEocd(d).pos).entries, readEocd(d, FindEocd(d).pos).cdfhOffset)

\* year, month (from 0, as Date takes it), day, hour, minute, second of a DOS date and time
DosDateTime(date, time) ==
    <<1980 + (date \div 512), ((date \div 32) % 16) - 1, date % 32,
      time \div 2048, (time \div 32) % 64, (time % 32) * 2>>

\* C28: after a successful open every listed entry has the timestamp decoded from the DOS
\* time and the DOS date of its header, and an entry whose header differs from that of
\* the same name in bufTwo in the DOS date only has another timestamp than that one
C28_TimestampOfDateAndTime ==
    (IsOpen /\ ret.kind = "ok") =>
        \A k \in DOMAIN DosFieldsOf(OpenedBytes) :
            LET h == DosFieldsOf(OpenedBytes)[k]
            IN  (/\ h.name \in DOMAIN entryTable
                 /\ \A j \in DOMAIN DosFieldsOf(OpenedBytes) : DosFieldsOf(OpenedBytes)[j].name = h.name => j <= k)
                => /\ entryTable[h.name].timestamp = DosDateTime(h.date, h.time)
                   /\ \A j \in DOMAIN DosFieldsOf(bufTwo) :
                        LET g == DosFieldsOf(bufTwo)[j]
                        IN  (g.name = h.name /\ g.time = h.time /\ g.date # h.date)
                            => entryTable[h.name].timestamp # PristineDirectory[textDecoder][1].table[g.name].timestamp

\* the same with the date taken for 0: what the entries of the model have
C28_TimeOnly ==
    (IsOpen /\ ret.kind = "ok") =>
        \A k \in DOMAIN DosFieldsOf(OpenedBytes) :
            DosFieldsOf(OpenedBytes)[k].name \in DOMAIN entryTable
            => entryTable[DosFieldsOf(OpenedBytes)[k].name].timestamp
               = DosDateTime(0, DosFieldsOf(OpenedBytes)[k].time)

\* C29: when fnDecode finds no symbol within 15 bits, inflate throws: the call fails
\* with no output byte stored after that point, and the bit counter stays a number
C29_NoSymbolIsAnError ==
    call.op = "readBinaryData" =>
        /\ ret.trace.noSymbol > 0 => ret.kind = "error" /\ ret.outCnt = ret.trace.noSymbol - 1
        /\ ~ret.trace.bitNaN

\* C30: the object reads entry data from the buffer its options hold, and its directory
\* is the one read from that buffer
C30_DirectoryOfCurrentBuffer ==
    live => /\ optData = data
            /\ PristineDirectory[textDecoder][data].kind = "ok"
            /\ entryTable = PristineDirectory[textDecoder][data].table

\* a setOptions call that throws leaves the buffer and the directory as they were
FailedSetOptionsKeeps ==
    [][(call'.op \in {"setOptions", "setOptions(force)"} /\ ret'.kind = "error")
        => UNCHANGED <<optData, data, bytes, entryTable>>]_vars

\* a read that returned bytes of one buffer, taken with the header of another
ReadAcrossBuffers ==
    /\ ReadOfEntry /\ ret.kind = "ok" /\ ~written
    /\ PristineDirectory[textDecoder][data].kind = "error"
    /\ ret.bytes # <<>>

\* C21: round trip of the traditional cipher: decrypting, with the password the writer
\* used and the header that carries the writer's check value, the encryption of a
\* 12-byte verification header followed by a plaintext returns exactly that plaintext,
\* which is 12 bytes shorter than the ciphertext
C21_RoundTrip ==
    (call.op = "decrypt" /\ call.password = call.key) =>
        /\ ret.kind = "ok"
        /\ ret.bytes = call.plain
        /\ Len(ret.bytes) = Len(call.cipher) - 12

\* a one-byte plaintext encrypted under a password and restored, the check value
\* carried in the time
C21_Witness ==
    /\ call.op = "decrypt" /\ call.password = call.key /\ call.key # <<>>
    /\ call.cdfh.flag = 9
    /\ call.plain # <<>> /\ Len(call.cipher) = 12 + Len(call.plain)
    /\ SubSeq(call.cipher, 13, Len(call.cipher)) # call.plain
    /\ ret.kind = "ok" /\ ret.bytes = call.plain

\* The key schedule of the traditional cipher computed without the program's arithmetic:
\* an integer reduced mod 2^32 is the sequence of its 32 binary digits, lowest first.
RECURSIVE RefDigits(_, _)
RefDigits(n, acc) == IF Len(acc) = 32 THEN acc ELSE RefDigits(n \div 2, Append(acc, n % 2))

RECURSIVE RefSum(_, _, _, _)
\* x + y + carry mod 2^32
RefSum(x, y, carry, acc) ==
    IF Len(acc) = 32 THEN acc
    ELSE RefSum(x, y, (x[Len(acc) + 1] + y[Len(acc) + 1] + carry) \div 2,
                Append(acc, (x[Len(acc) + 1] + y[Len(acc) + 1] + carry) % 2))

RefAdd(x, y) == RefSum(x, y, 0, <<>>)

RECURSIVE RefXor(_, _, _)
RefXor(x, y, acc) ==
    IF Len(acc) = 32 THEN acc ELSE RefXor(x, y, Append(acc, (x[Len(acc) + 1] + y[Len(acc) + 1]) % 2))

\* x * 2^k mod 2^32 and x \div 2
RefTimesPower(x, k) == [i \in 1 .. 32 |-> IF i > k THEN x[i - k] ELSE 0]

RefHalf(x) == SubSeq(x, 2, 32) \o <<0>>

\* x * 134775813 mod 2^32, 134775813 being 2^27 + 2^19 + 2^15 + 2^10 + 2^2 + 1
RefTimesMultiplier(x) ==
    RefAdd(RefAdd(RefAdd(RefTimesPower(x, 27), RefTimesPower(x, 19)),
                  RefAdd(RefTimesPower(x, 15), RefTimesPower(x, 10))),
           RefAdd(RefTimesPower(x, 2), x))

\* the CRC-32 of the reflected polynomial 0xEDB88320 = 2 * 1994146192, one bit at a time
RECURSIVE RefCrcBits(_, _)
RefCrcBits(x, n) ==
    IF n = 0 THEN x
    ELSE RefCrcBits(IF x[1] = 1 THEN RefXor(RefHalf(x), RefAdd(RefDigits(1994146192, <<>>), RefDigits(1994146192, <<>>)), <<>>)
                    ELSE RefHalf(x), n - 1)

\* crc32(crc, c) for a byte c
RefCrc32(crc, c) == RefCrcBits(RefXor(crc, RefDigits(c, <<>>), <<>>), 8)

\* key1 >> 24 and key0 & 0xFF as numbers
RefTopByte(x) ==
    x[25] + 2 * x[26] + 4 * x[27] + 8 * x[28] + 16 * x[29] + 32 * x[30] + 64 * x[31] + 128 * x[32]

RefLowByte(x) ==
    x[1] + 2 * x[2] + 4 * x[3] + 8 * x[4] + 16 * x[5] + 32 * x[6] + 64 * x[7] + 128 * x[8]

RefUpdate(keys, c) ==
    LET key0 == RefCrc32(keys[1], c)
        key1 == RefAdd(RefTimesMultiplier(RefAdd(keys[2], RefDigits(RefLowByte(key0), <<>>))), RefDigits(1, <<>>))
        key2 == RefCrc32(keys[3], RefTopByte(key1))
    IN  <<key0, key1, key2>>

RECURSIVE RefKeys(_, _)
\* the keys after updates with the first n bytes of password, from 0x12345678,
\* 0x23456789, 0x34567890
RefKeys(password, n) ==
    IF n = 0 THEN <<RefDigits(305419896, <<>>), RefDigits(591751049, <<>>), RefDigits(878082192, <<>>)>>
    ELSE RefUpdate(RefKeys(password, n - 1), password[n])

\* the four bytes of the program's word as 32 binary digits
WordDigits(w) == [i \in 1 .. 32 |-> (w[((i - 1) \div 8) + 1] \div (2 ^ ((i - 1) % 8))) % 2]

IsWord(w) == Len(w) = 4 /\ \A k \in 1 .. 4 : w[k] \in 0 .. 255

\* C22: after any sequence of updates, from the initial keys 0x12345678, 0x23456789,
\* 0x34567890, the three keys lie in [0, 2^32) and, the updates being bytes, equal
\* key0 = crc32(key0, c), key1 = ((key1 + (key0 & 0xFF)) * 134775813 + 1) mod 2^32,
\* key2 = crc32(key2, key1 >> 24) computed on integers mod 2^32
C22_KeySchedule ==
    call.op = "initKeys" =>
        /\ Len(ret.keys) = 3
        /\ \A k \in 1 .. 3 : IsWord(ret.keys[k])
        /\ (\A i \in 1 .. Len(call.password) : call.password[i] \in 0 .. 255)
             => \A k \in 1 .. 3 : WordDigits(ret.keys[k]) = RefKeys(call.password, Len(call.password))[k]

\* keys after as many updates as the bound allows, one of them with byte 255
C22_Witness ==
    /\ call.op = "initKeys" /\ Len(call.password) = MaxPassword
    /\ \E i \in 1 .. Len(call.password) : call.password[i] = 255
    /\ \A i \in 1 .. Len(call.password) : call.password[i] \in 0 .. 255
    /\ ret.keys # initialKeys
    /\ \A k \in 1 .. 3 : WordDigits(ret.keys[k]) = RefKeys(call.password, Len(call.password))[k]

\* the outcome of the decrypt call of this state computed from its own ciphertext,
\* header and password alone, with a table built for it
OutcomeAlone ==
    LET r == decrypt(createCrcTable, call.cipher, call.cdfh, call.password)
    IN  [kind |-> r.kind, msg |-> r.msg, bytes |-> IF r.kind = "ok" THEN r.bytes ELSE <<>>]

\* C23: decrypt carries no state between calls: whatever calls went before, a call's
\* outcome is the one its own ciphertext, header and password give, and the only shared
\* state, the CRC-32 table, is built on first use and never modified afterwards
C23_NoStateBetweenCalls ==
    /\ [](call.op = "decrypt" => ret = OutcomeAlone /\ crcTable = Table(createCrcTable))
    /\ [](crcTable \in {NoTable, Table(createCrcTable)})
    /\ [][crcTable.built => crcTable' = crcTable]_vars

\* a decrypt that succeeded right after a call that failed with another password
C23_Witness ==
    /\ call.op = "decrypt" /\ call.prior = "error"
    /\ call.password = call.key /\ call.key # <<>> /\ call.plain # <<>>
    /\ ret.kind = "ok" /\ ret = OutcomeAlone
    /\ crcTable = Table(createCrcTable)

\* The canonical Huffman code of a list of code lengths (RFC 1951, 3.2.2): the codes of
\* one length are consecutive values in the order of the symbols, and the first code of
\* a length is twice the value after the last code of the length before.
RefCountOf(lens, len) == Cardinality({k \in 1 .. Len(lens) : lens[k] = len})

RECURSIVE RefFirstCode(_, _)
RefFirstCode(lens, len) ==
    IF len = 1 THEN 0 ELSE 2 * (RefFirstCode(lens, len - 1) + RefCountOf(lens, len - 1))

\* the code of the symbol k - 1, a number of lens[k] binary digits
RefCodeOf(lens, k) == RefFirstCode(lens, lens[k]) + Cardinality({m \in 1 .. k - 1 : lens[m] = lens[k]})

\* bit n (from 0) of the input, bytes taken lowest bit first
RefBit(bits, n) == (bits[(n \div 8) + 1] \div (2 ^ (n % 8))) % 2

RECURSIVE RefPrefix(_, _)
\* the first n bits of the input read as a number, first bit highest
RefPrefix(bits, n) == IF n = 0 THEN 0 ELSE 2 * RefPrefix(bits, n - 1) + RefBit(bits, n - 1)

\* the symbols (plus one) whose code the input starts with
RefMatches(lens, bits) ==
    {k \in 1 .. Len(lens) : /\ lens[k] > 0
                            /\ lens[k] <= 8 * Len(bits)
                            /\ RefCodeOf(lens, k) = RefPrefix(bits, lens[k])}

\* the lengths of the fixed block type
RefFixedLengths(table) ==
    IF table = "fixedLen"
    THEN [k \in 1 .. 288 |-> IF k - 1 <= 143 THEN 8 ELSE IF k - 1 <= 255 THEN 9 ELSE IF k - 1 <= 279 THEN 7 ELSE 8]
    ELSE [k \in 1 .. 30 |-> 5]

\* C26: fnDecode is a canonical Huffman decoder: for a code-length list fnInflateConstruct
\* accepts and an input that starts with the canonical code of a symbol, it returns that
\* symbol and takes exactly the code's length in bits, and it returns no symbol otherwise;
\* the tables of the fixed block type are those of the lengths 8 (0-143), 9 (144-255),
\* 7 (256-279), 8 (280-287) and 5 for each of the 30 distance symbols
C26_CanonicalDecoder ==
    call.op = "fnDecode" =>
        /\ call.table # "own" => call.lens = RefFixedLengths(call.table)
        /\ \A k \in RefMatches(call.lens, call.bits) :
             ret.kind = "ok" /\ ret.symbol = k - 1 /\ ret.used = call.lens[k]
        /\ (ret.kind = "ok" /\ ret.symbol # Null) => RefMatches(call.lens, call.bits) # {}

\* a symbol with a three-bit code decoded from a given list, another code of the list
\* being shorter
C26_Witness ==
    /\ call.op = "fnDecode" /\ call.table = "own"
    /\ ret.kind = "ok" /\ ret.symbol # Null /\ ret.used = 3 /\ ret.symbol + 1 \in RefMatches(call.lens, call.bits)
    /\ \E k \in 1 .. Len(call.lens) : call.lens[k] \in 1 .. 2

\* a nine-bit literal of the fixed code
FixedNineBits ==
    /\ call.op = "fnDecode" /\ call.table = "fixedLen"
    /\ ret.kind = "ok" /\ ret.used = 9 /\ ret.symbol \in 144 .. 255

\* The expansion of the length list of a dynamic block from the description of the header.
\* the lengths of the code length code that the header holds: nCode of them in the order
\* of dynamicTableOrder, the others 0
HeldCodeLengths(h) ==
    [k \in 1 .. 19 |-> IF \E i \in 1 .. h.nCode : dynamicTableOrder[i] = k - 1 THEN h.cl[k] ELSE 0]

\* 2^15 times the sum of 2^-len over the lengths that are not 0: 2^15 for a complete code,
\* more for an over-subscribed one
RECURSIVE KraftSum(_, _)
KraftSum(lens, len) ==
    IF len > 15 THEN 0 ELSE RefCountOf(lens, len) * (2 ^ (15 - len)) + KraftSum(lens, len + 1)

CodesIn(lens) == Cardinality({k \in 1 .. Len(lens) : lens[k] # 0})

\* over-subscribed, or incomplete with more than one code
RefBadCode(lens) ==
    KraftSum(lens, 1) > 32768 \/ (KraftSum(lens, 1) < 32768 /\ CodesIn(lens) > 1)

RECURSIVE RefExpand(_, _, _, _, _, _)
\* the items from the k-th, which starts at bit pos of the input, expanded after the
\* lengths acc: the total lengths, or the first error, or "short" when the k-th item is
\* needed and does not lie within the avail bits of the input
RefExpand(h, total, avail, k, pos, acc) ==
    IF Len(acc) >= total THEN [kind |-> "ok", msg |-> "", lens |-> acc]
    ELSE IF k > Len(h.items) \/ pos + h.cl[h.items[k][1] + 1] > avail
         THEN [kind |-> "short", msg |-> "Zip: inflate: Data overflow", lens |-> acc]
    ELSE IF h.items[k][1] = 16 /\ acc = <<>>
         THEN [kind |-> "rejected", msg |-> "Zip: inflate: repeat lengths with no first length", lens |-> acc]
    ELSE IF pos + h.cl[h.items[k][1] + 1] + ExtraBits(h.items[k][1]) > avail
         THEN [kind |-> "short", msg |-> "Zip: inflate: Data overflow", lens |-> acc]
    ELSE IF h.items[k][1] >= 16 /\ Len(acc) + ItemCount(h.items[k]) > total
         THEN [kind |-> "rejected", msg |-> "Zip: inflate: more lengths than specified", lens |-> acc]
    ELSE RefExpand(h, total, avail, k + 1, pos + h.cl[h.items[k][1] + 1] + ExtraBits(h.items[k][1]),
                   IF h.items[k][1] < 16 THEN Append(acc, h.items[k][1])
                   ELSE acc \o [n \in 1 .. ItemCount(h.items[k]) |->
                                   IF h.items[k][1] = 16 THEN acc[Len(acc)] ELSE 0])

\* 16 repeats the previous length 3-6 times, 17 gives 3-10 zeros, 18 gives 11-138 zeros
ItemInRange(item) ==
    /\ item[1] = 16 => ItemCount(item) \in 3 .. 6
    /\ item[1] = 17 => ItemCount(item) \in 3 .. 10
    /\ item[1] = 18 => ItemCount(item) \in 11 .. 138

\* what the header described by h must give when HeaderStream(h) is the input
RefOutcome(h) ==
    LET held == HeldCodeLengths(h)
        avail == 8 * Len(HeaderStream(h))
        x == RefExpand(h, h.nLen + h.nDist, avail, 1, 14 + 3 * h.nCode, <<>>)
    IN  IF h.nLen > 286 \/ h.nDist > 30
        THEN [kind |-> "rejected", msg |-> "Zip: inflate: length/distance code overflow", lens |-> <<>>]
        ELSE IF KraftSum(held, 1) # 32768
        THEN [kind |-> "rejected", msg |-> IF CodesIn(held) = 0 THEN "" ELSE "Zip: inflate: length codes incomplete",
              lens |-> <<>>]
        ELSE IF x.kind # "ok" THEN x
        ELSE IF RefBadCode(SubSeq(x.lens, 1, h.nLen)) \/ RefBadCode(SubSeq(x.lens, h.nLen + 1, h.nLen + h.nDist))
        THEN [kind |-> "rejected", msg |-> "Zip: inflate: bad literal or length codes", lens |-> x.lens]
        ELSE x

\* the lengths a table of fnInflateConstruct was built from: the symbols of the table by
\* the group of their length, every other of the n symbols 0
RECURSIVE CountUpTo(_, _)
CountUpTo(codes, len) == IF len = 0 THEN 0 ELSE codes.count[len] + CountUpTo(codes, len - 1)

TableLengths(codes, n) ==
    [k \in 1 .. n |->
        IF \E q \in 1 .. Len(codes.symbol) : codes.symbol[q] = k - 1
        THEN CHOOSE len \in 1 .. 15 :
                \E q \in 1 .. Len(codes.symbol) :
                    /\ codes.symbol[q] = k - 1
                    /\ CountUpTo(codes, len - 1) < q /\ q <= CountUpTo(codes, len)
        ELSE 0]

\* the number of lengths a table was built from
TableSize(codes) == codes.count[0] + CountUpTo(codes, 15)

ProducedAsDescribed(h, x) ==
    /\ ret.kind = "ok"
    /\ TableSize(ret.lenCode) + TableSize(ret.distCode) = h.nLen + h.nDist
    /\ Len(x.lens) = h.nLen + h.nDist
    /\ TableLengths(ret.lenCode, h.nLen) = SubSeq(x.lens, 1, h.nLen)
    /\ TableLengths(ret.distCode, h.nDist) = SubSeq(x.lens, h.nLen + 1, h.nLen + h.nDist)

\* C27: the length list of a dynamic block is expanded as the items say (0-15 one length,
\* 16 the previous length 3-6 times, 17 3-10 zeros, 18 11-138 zeros); the block is
\* rejected with an error when nLen > 286 or nDist > 30, when the code length code is not
\* complete, when 16 comes first, when a repeat would exceed nLen + nDist lengths, or when
\* the literal/length or the distance code is over-subscribed or incomplete with more than
\* one code; it fails with 'Data overflow' when the input ends before the lengths are
\* read; otherwise exactly nLen + nDist lengths are produced
C27_DynamicLengths ==
    call.op = "fnConstructDynamicHuffman" =>
        /\ \A k \in 1 .. Len(call.items) : ItemInRange(call.items[k])
        /\ RefOutcome(call).kind = "rejected" =>
             /\ ret.kind = "error"
             /\ (call.drop = 0 /\ RefOutcome(call).msg # "") => ret.msg = RefOutcome(call).msg
        /\ RefOutcome(call).kind = "short" => ret.kind = "error" /\ ret.msg = "Zip: inflate: Data overflow"
        /\ RefOutcome(call).kind = "ok" => ProducedAsDescribed(call, RefOutcome(call))

\* C27 as stated: a block that meets none of the listed conditions yields its nLen + nDist
\* lengths
C27_RejectedOrProduced ==
    call.op = "fnConstructDynamicHuffman" =>
        \/ RefOutcome(call).kind = "rejected" /\ ret.kind = "error"
        \/ RefOutcome(call).kind # "rejected" /\ ret.kind = "ok"

\* lengths produced from a list with the items 2, 16 (three repeats), 18 and a final
\* literal: 2, 2, 2, 2, zeros, 1
C27_Witness ==
    /\ call.op = "fnConstructDynamicHuffman" /\ call.drop = 0
    /\ \E k \in 1 .. Len(call.items) : call.items[k][1] = 16
    /\ \E k \in 1 .. Len(call.items) : call.items[k][1] = 18
    /\ RefOutcome(call).kind = "ok"
    /\ ProducedAsDescribed(call, RefOutcome(call))
    /\ SubSeq(RefOutcome(call).lens, 1, 4) = <<2, 2, 2, 2>>
    /\ RefOutcome(call).lens[call.nLen + 1] = 1

\* each of the listed rejections happens, with its message
RejectedFor(msg) ==
    call.op = "fnConstructDynamicHuffman" /\ call.drop = 0 /\ RefOutcome(call).kind = "rejected"
    /\ RefOutcome(call).msg = msg /\ ret.kind = "error" /\ ret.msg = msg

====
